---- MODULE Spec2Model ----
(***************************************************************************)
(* Hades GBA emulator: the command-driven run loop (source/gba/gba.c), the *)
(* front-end that feeds it, and the core memory bus (source/core/bus.c).   *)
(*                                                                         *)
(* Two threads share gba->message_queue: the front-end appends records     *)
(* with gba_message_push, the emulator thread drains them at the top of    *)
(* every iteration of gba_run.  Each thread is modelled by a program       *)
(* counter and one action per step between two synchronisation points.     *)
(***************************************************************************)
EXTENDS Integers, Sequences, FiniteSets, TLC

VARIABLES
    message_queue,  \* struct message_queue: messages, length, allocated_size, lock
    gba,            \* the fields of struct gba the commands read and write
    pc_e,           \* emulator thread: position inside gba_run
    message,        \* gba_run's local `message`, as an offset into messages
    frame_calls,    \* calls of sched_run_for in the current loop iteration
    pace,           \* gba_run's locals accumulated_time and time_per_frame
    pc_f,           \* front-end thread: position inside gba_message_push
    push_msg,       \* gba_message_push's argument `message`
    new_size,       \* gba_message_push's local `new_size`
    pushed,         \* history: the records whose push has completed, in order
    executed,       \* history: the records the drain has executed, in order
    waited,         \* history: per completed push, frames run while it was pending
    seen_at_lock,   \* history: Len(pushed) when the emulator last took the lock
    exit_seen,      \* history: the drain has reached an Exit record
    heap,           \* the buffers handed to the queue as record payloads
    app,            \* struct app: the front-end function in progress and its state
    qsave,          \* the quicksave file
    core,           \* struct core: memory, memory_size, big_endian
    host,           \* the build: byte order and unaligned accesses of the host
    pc_bus,         \* "running", or how the process ended in a bus access
    bus_op          \* history: the last bus access, its result, memory before it

loopvars == <<message_queue, gba, pc_e, message, frame_calls, pace, pc_f, push_msg,
              new_size, pushed, executed, waited, seen_at_lock, exit_seen,
              heap, app, qsave>>

busvars == <<core, host, pc_bus, bus_op>>

vars == <<message_queue, gba, pc_e, message, frame_calls, pace, pc_f, push_msg,
          new_size, pushed, executed, waited, seen_at_lock, exit_seen,
          heap, app, qsave, core, host, pc_bus, bus_op>>

(***************************************************************************)
(* Bounds of the model.                                                    *)
(***************************************************************************)
MaxPush == 3

\* Bytes of core->memory, and bus accesses in one run.
MemSize == 8

MaxBusOps == 2

(***************************************************************************)
(* Sizes of the memory regions the load commands fill.                     *)
(***************************************************************************)
\* The BIOS is 0x4000 bytes long; BIOS_MASK is the mask of its addresses.
BIOS_SIZE == 16384

BIOS_MASK == BIOS_SIZE - 1

\* The cartridge ROM: 32 MiB.
CART_SIZE == 33554432

\* backup_storage_sizes[type]
backup_storage_sizes(type) ==
    CASE type = "BACKUP_SRAM" -> 32768
      [] type = "BACKUP_FLASH64" -> 65536
      [] OTHER -> 0

(***************************************************************************)
(* Command records.  A record is a header {type, size} followed by its     *)
(* payload; `id` is not part of the program, it names the push that made   *)
(* the record so that a duplicate or a loss is visible.                    *)
(***************************************************************************)
Keys == {"KEY_A", "KEY_B", "KEY_L", "KEY_R", "KEY_UP", "KEY_DOWN",
         "KEY_RIGHT", "KEY_LEFT", "KEY_START", "KEY_SELECT"}

KeyFields == {"a", "b", "l", "r", "up", "down", "right", "left", "start", "select"}

BackupTypes == {"BACKUP_NONE", "BACKUP_SRAM", "BACKUP_FLASH64"}

DeviceStates == {"DEVICE_AUTO_DETECT", "DEVICE_ENABLED", "DEVICE_DISABLED"}

\* sizeof of the record of each type, in units of one header.
SizeOf(type) ==
    CASE type \in {"MESSAGE_EXIT", "MESSAGE_RESET", "MESSAGE_PAUSE", "MESSAGE_UNKNOWN"} -> 1
      [] type \in {"MESSAGE_RUN", "MESSAGE_BACKUP_TYPE", "MESSAGE_RTC",
                   "MESSAGE_COLOR_CORRECTION", "MESSAGE_AUDIO_RESAMPLE_FREQ"} -> 2
      [] OTHER -> 3

Msg(type, key, pressed, speed, sel) ==
    [id |-> 0, type |-> type, size |-> SizeOf(type),
     key |-> key, pressed |-> pressed, speed |-> speed, sel |-> sel,
     data |-> 0, data_size |-> 0, cleanup |-> FALSE]

NEW_MESSAGE_EXIT == Msg("MESSAGE_EXIT", "-", FALSE, 0, "-")
NEW_MESSAGE_RESET == Msg("MESSAGE_RESET", "-", FALSE, 0, "-")
NEW_MESSAGE_PAUSE == Msg("MESSAGE_PAUSE", "-", FALSE, 0, "-")
NEW_MESSAGE_RUN(speed) == Msg("MESSAGE_RUN", "-", FALSE, speed, "-")
NEW_MESSAGE_KEYINPUT(key, pressed) == Msg("MESSAGE_KEYINPUT", key, pressed, 0, "-")
NEW_MESSAGE_BACKUP_TYPE(type) == Msg("MESSAGE_BACKUP_TYPE", "-", FALSE, 0, type)
NEW_MESSAGE_RTC(state) == Msg("MESSAGE_RTC", "-", FALSE, 0, state)

\* struct message_data: `data` is the payload pointer (a buffer of the heap;
\* 0 is NULL), `data_size` its size field, `cleanup` whether the callback is
\* non-null (the front-end passes free).
MsgData(type, data, size, cleanup) ==
    [Msg(type, "-", FALSE, 0, "-") EXCEPT !.data = data, !.data_size = size,
                                          !.cleanup = cleanup]

NEW_MESSAGE_LOAD_BIOS(data, cleanup) == MsgData("MESSAGE_LOAD_BIOS", data, BIOS_SIZE, cleanup)
NEW_MESSAGE_LOAD_ROM(data, size, cleanup) == MsgData("MESSAGE_LOAD_ROM", data, size, cleanup)
NEW_MESSAGE_LOAD_BACKUP(data, size, cleanup) == MsgData("MESSAGE_LOAD_BACKUP", data, size, cleanup)
NEW_MESSAGE_QUICKSAVE(data, cleanup) == MsgData("MESSAGE_QUICKSAVE", data, 0, cleanup)
NEW_MESSAGE_QUICKLOAD(data, cleanup) == MsgData("MESSAGE_QUICKLOAD", data, 0, cleanup)

\* A record whose type is none of the cases of the drain's switch, of `size`
\* units.
UnknownMsg(size) == [Msg("MESSAGE_UNKNOWN", "-", FALSE, 0, "-") EXCEPT !.size = size]

\* What a read of a record finds where no whole record lies.
TornMsg == Msg("MESSAGE_TORN", "-", FALSE, 0, "-")

(***************************************************************************)
(* The queue's buffer.  messages is a sequence of cells, one per unit of   *)
(* size; a record of size n occupies n consecutive cells, parts 1..n.  The *)
(* empty sequence is the NULL pointer.                                     *)
(***************************************************************************)
JunkCell == [msg |-> TornMsg, part |-> 0]

Cells(m) == [i \in 1..m.size |-> [msg |-> m, part |-> i]]

\* realloc(buf, n): the first min(old, n) cells are kept, the rest is uninitialised.
Realloc(buf, n) == [i \in 1..n |-> IF i <= Len(buf) THEN buf[i] ELSE JunkCell]

\* memcpy(buf + off, m, m->size)
Memcpy(buf, off, m) ==
    [i \in 1..Len(buf) |->
        IF i > off /\ i <= off + m.size THEN Cells(m)[i - off] ELSE buf[i]]

\* The record that a message pointer at byte offset off reads.
MessageAt(buf, off) ==
    IF /\ off + 1 <= Len(buf)
       /\ buf[off + 1].part = 1
       /\ off + buf[off + 1].msg.size <= Len(buf)
       /\ \A i \in 1..buf[off + 1].msg.size :
              buf[off + i] = [msg |-> buf[off + 1].msg, part |-> i]
    THEN buf[off + 1].msg
    ELSE TornMsg

\* The records a drain starting at offset off would meet, n of them.
RECURSIVE Pending(_, _, _)
Pending(buf, off, n) ==
    IF n = 0 THEN <<>>
    ELSE <<MessageAt(buf, off)>> \o Pending(buf, off + MessageAt(buf, off).size, n - 1)

(***************************************************************************)
(* pthread_mutex_lock returns only when the mutex is free.                 *)
(***************************************************************************)
\* Mutation: the lock is taken without waiting for its holder.
MutexFree_NoWait(q) == TRUE

MutexFree(q) == q.lock = "free"

\* Mutation: a path that leaves the critical section without unlocking.
pthread_mutex_unlock_Missing(q) == q

pthread_mutex_unlock(q) == [q EXCEPT !.lock = "free"]

(***************************************************************************)
(* Byte arrays too long to enumerate (BIOS, ROM, backup storage, file      *)
(* contents) are sequences of runs: a run [n, of] is n consecutive bytes,  *)
(* each equal to the byte of `of` at the same offset from the start of the *)
(* array; `of` is the name of a file's content, or "zero".                 *)
(***************************************************************************)
Min(a, b) == IF a < b THEN a ELSE b

Bytes(n, of) == IF n = 0 THEN <<>> ELSE <<[n |-> n, of |-> of]>>

RECURSIVE RunsLen(_)
RunsLen(runs) == IF runs = <<>> THEN 0 ELSE Head(runs).n + RunsLen(Tail(runs))

\* The first k bytes, and all but the first k bytes.
RECURSIVE Take(_, _)
Take(runs, k) ==
    IF k = 0 \/ runs = <<>> THEN <<>>
    ELSE IF Head(runs).n <= k THEN <<Head(runs)>> \o Take(Tail(runs), k - Head(runs).n)
    ELSE <<[Head(runs) EXCEPT !.n = k]>>

RECURSIVE Drop(_, _)
Drop(runs, k) ==
    IF k = 0 \/ runs = <<>> THEN runs
    ELSE IF Head(runs).n <= k THEN Drop(Tail(runs), k - Head(runs).n)
    ELSE <<[Head(runs) EXCEPT !.n = @ - k]>> \o Tail(runs)

\* Adjacent runs of the same source are one run.
RECURSIVE Norm(_)
Norm(runs) ==
    IF Len(runs) < 2 THEN runs
    ELSE IF runs[1].of = runs[2].of
         THEN Norm(<<[n |-> runs[1].n + runs[2].n, of |-> runs[1].of]>> \o Tail(Tail(runs)))
         ELSE <<runs[1]>> \o Norm(Tail(runs))

\* memcpy(dst, src, k) and memset(dst, 0, k)
MemcpyBytes(dst, src, k) == Norm(Take(src, k) \o Drop(dst, k))

MemsetZero(dst, k) == MemcpyBytes(dst, Bytes(k, "zero"), k)

\* The source of the byte at offset k.
RECURSIVE ByteAt(_, _)
ByteAt(runs, k) ==
    IF runs = <<>> THEN "none"
    ELSE IF k < Head(runs).n THEN Head(runs).of
    ELSE ByteAt(Tail(runs), k - Head(runs).n)

(***************************************************************************)
(* The heap buffers that travel as payloads: what a buffer holds, how many *)
(* times it was passed to free, and whether it was read after that.        *)
(***************************************************************************)
Buffer(content) == [content |-> content, frees |-> 0, stale_read |-> FALSE]

\* The command reads its payload.
UsePayload(h, m) ==
    IF m.data \in DOMAIN h
    THEN [h EXCEPT ![m.data].stale_read = @ \/ h[m.data].frees > 0]
    ELSE h

\* message_data->cleanup(message_data->data)
Cleanup(h, m) ==
    IF m.data \in DOMAIN h THEN [h EXCEPT ![m.data].frees = @ + 1] ELSE h

\* Mutation: the payload is released before the command reads it.
UseThenCleanup_CleanupFirst(h, m) ==
    IF m.cleanup THEN UsePayload(Cleanup(h, m), m) ELSE UsePayload(h, m)

\* ...; if (message_data->cleanup) { message_data->cleanup(message_data->data); }
UseThenCleanup(h, m) ==
    IF m.cleanup THEN Cleanup(UsePayload(h, m), m) ELSE UsePayload(h, m)

DataTypes == {"MESSAGE_LOAD_BIOS", "MESSAGE_LOAD_ROM", "MESSAGE_LOAD_BACKUP",
              "MESSAGE_QUICKLOAD", "MESSAGE_QUICKSAVE"}

\* The heap after a record is executed.
ExecuteHeap(h, m) == IF m.type \in DataTypes THEN UseThenCleanup(h, m) ELSE h

Payload(h, m) == IF m.data \in DOMAIN h THEN h[m.data].content ELSE <<>>

(***************************************************************************)
(* The commands of the drain's switch, as functions of the gba fields.     *)
(***************************************************************************)
\* case MESSAGE_LOAD_BIOS
ExecLoadBios(g, m, h) ==
    [g EXCEPT !.bios = MemcpyBytes(MemsetZero(@, BIOS_MASK), Payload(h, m),
                                   Min(m.data_size, BIOS_MASK))]

\* db_lookup_game(gba): the database entry of the game is looked up; the
\* fields of this model are left as they are.
db_lookup_game(g) == g

\* Mutation: the memset of the ROM is missing.
ExecLoadRom_NoMemset(g, m, h) ==
    db_lookup_game(
        [g EXCEPT !.rom = MemcpyBytes(@, Payload(h, m), Min(m.data_size, CART_SIZE)),
                  !.rom_size = Min(m.data_size, CART_SIZE)])

\* case MESSAGE_LOAD_ROM
ExecLoadRom(g, m, h) ==
    db_lookup_game(
        [g EXCEPT !.rom = MemcpyBytes(MemsetZero(@, CART_SIZE), Payload(h, m),
                                      Min(m.data_size, CART_SIZE)),
                  !.rom_size = Min(m.data_size, CART_SIZE)])

\* case MESSAGE_LOAD_BACKUP
ExecLoadBackup(g, m, h) ==
    LET cap == backup_storage_sizes(g.backup_storage_type) IN
    [g EXCEPT !.backup = MemcpyBytes(MemsetZero(@, cap), Payload(h, m),
                                     Min(m.data_size, cap))]

\* quicksave(gba, path): the state of the emulated machine is written out.
quicksave(g) == <<[keyinput |-> g.keyinput, backup |-> g.backup]>>

\* quickload(gba, path): the state in the file, if there is one, replaces
\* the state of the emulated machine.  The file is <<>> until it is written.
quickload(g, file) ==
    IF file = <<>> THEN g
    ELSE [g EXCEPT !.keyinput = file[1].keyinput, !.backup = file[1].backup]

\* The quicksave file after a record is executed.
ExecuteFile(file, g, m) == IF m.type = "MESSAGE_QUICKSAVE" THEN quicksave(g) ELSE file

\* mem_reset(&gba->memory): the work RAM is cleared; `clears` says whether
\* the BIOS and ROM images are cleared with it.
mem_reset(g, clears) ==
    IF clears
    THEN [g EXCEPT !.bios = Bytes(BIOS_SIZE, "zero"), !.rom = Bytes(CART_SIZE, "zero")]
    ELSE g

\* mem_backup_storage_init(gba): storage of the size of the type, zeroed.
mem_backup_storage_init(g) ==
    [g EXCEPT !.backup = Bytes(backup_storage_sizes(g.backup_storage_type), "zero")]

\* io_init: every button released (KEYINPUT is active-low).
io_init(io) == [f \in KeyFields |-> 1]

\* Mutation: started is left as it is.
gba_reset_KeepsStarted(g, clears) ==
    [mem_reset(g, clears) EXCEPT !.keyinput = io_init(g.keyinput)]

gba_reset(g, clears) ==
    [mem_reset(g, clears) EXCEPT !.keyinput = io_init(g.keyinput), !.started = FALSE]

ExecRun(g, m) == [g EXCEPT !.started = TRUE, !.state = "GBA_STATE_RUN", !.speed = m.speed]

ExecPause(g) == [g EXCEPT !.state = "GBA_STATE_PAUSE"]

\* mem_backup_storage_detect: the type found in the ROM, `det`.
mem_backup_storage_detect(g, det) ==
    [g EXCEPT !.backup_storage_type = det, !.backup_storage_source = "BACKUP_SOURCE_AUTO_DETECT"]

\* Mutation: the `if (gba->started) break;` is missing.
ExecBackupType_NoStartedCheck(g, m, det) ==
    mem_backup_storage_init(
        IF m.sel = "BACKUP_AUTO_DETECT"
        THEN mem_backup_storage_detect(g, det)
        ELSE [g EXCEPT !.backup_storage_type = m.sel,
                       !.backup_storage_source = "BACKUP_SOURCE_MANUAL"])

ExecBackupType(g, m, det) ==
    IF g.started THEN g
    ELSE mem_backup_storage_init(
             IF m.sel = "BACKUP_AUTO_DETECT"
             THEN mem_backup_storage_detect(g, det)
             ELSE [g EXCEPT !.backup_storage_type = m.sel,
                            !.backup_storage_source = "BACKUP_SOURCE_MANUAL"])

ExecRtc(g, m) ==
    IF g.started THEN g
    ELSE CASE m.sel = "DEVICE_AUTO_DETECT" -> [g EXCEPT !.rtc_auto_detect = TRUE, !.rtc_enabled = FALSE]
           [] m.sel = "DEVICE_ENABLED" -> [g EXCEPT !.rtc_auto_detect = FALSE, !.rtc_enabled = TRUE]
           [] m.sel = "DEVICE_DISABLED" -> [g EXCEPT !.rtc_auto_detect = FALSE, !.rtc_enabled = FALSE]
           [] OTHER -> g

\* The bit-field of gba->io.keyinput that each case of the inner switch writes.
KeyField(key) ==
    CASE key = "KEY_A" -> "a"
      [] key = "KEY_B" -> "b"
      [] key = "KEY_L" -> "l"
      [] key = "KEY_R" -> "r"
      [] key = "KEY_UP" -> "up"
      [] key = "KEY_DOWN" -> "down"
      [] key = "KEY_RIGHT" -> "right"
      [] key = "KEY_LEFT" -> "left"
      [] key = "KEY_START" -> "start"
      [] key = "KEY_SELECT" -> "select"

\* Mutation: `pressed` is stored without the negation.
KeyBit_NotNegated(pressed) == IF pressed THEN 1 ELSE 0

\* `!message_keyinput->pressed`, stored in a one-bit field.
KeyBit(pressed) == IF pressed THEN 0 ELSE 1

ExecKeyInput(g, m) ==
    IF m.key \in Keys
    THEN [g EXCEPT !.keyinput[KeyField(m.key)] = KeyBit(m.pressed)]
    ELSE g

\* time_per_frame = 1.f/59.737f * 1000.f * 1000.f / (float)gba->speed, in
\* microseconds, truncated to uint64_t.
FramePeriodUs == 16740

TimePerFrame(speed) == FramePeriodUs \div speed

\* accumulated_time = 0; time_per_frame = 0; at the entry of gba_run.
PaceInit ==
    [accumulated_time |-> 0, time_per_frame |-> 0,
     measured |-> 0, request |-> -1, skips |-> 0, ticks |-> 0]

\* case MESSAGE_RUN, the locals of gba_run it sets.
RunPace(p, m) ==
    IF m.speed /= 0
    THEN [p EXCEPT !.time_per_frame = TimePerFrame(m.speed), !.accumulated_time = 0]
    ELSE [p EXCEPT !.time_per_frame = 0]

\* a < b on uint64_t.  A value below zero stands for the value it wraps to,
\* 2^64 minus its magnitude.
ULess(a, b) ==
    IF a < 0 THEN b < 0 /\ a < b
    ELSE b < 0 \/ a < b

\* switch (message->type) { ... }: a type with no case changes nothing.
\* `env` is what the command reads besides gba and the record: the heap, the
\* quicksave file, and the outcomes of the functions modelled by a choice.
Execute(g, m, env) ==
    CASE m.type = "MESSAGE_LOAD_BIOS" -> ExecLoadBios(g, m, env.heap)
      [] m.type = "MESSAGE_LOAD_ROM" -> ExecLoadRom(g, m, env.heap)
      [] m.type = "MESSAGE_LOAD_BACKUP" -> ExecLoadBackup(g, m, env.heap)
      [] m.type = "MESSAGE_BACKUP_TYPE" -> ExecBackupType(g, m, env.det)
      [] m.type = "MESSAGE_RESET" -> gba_reset(g, env.clears)
      [] m.type = "MESSAGE_QUICKLOAD" -> quickload(g, env.file)
      [] m.type = "MESSAGE_QUICKSAVE" -> g
      [] m.type = "MESSAGE_RUN" -> ExecRun(g, m)
      [] m.type = "MESSAGE_PAUSE" -> ExecPause(g)
      [] m.type = "MESSAGE_KEYINPUT" -> ExecKeyInput(g, m)
      [] m.type = "MESSAGE_RTC" -> ExecRtc(g, m)
      [] OTHER -> g

(***************************************************************************)
(* gba_init: the structure is zeroed and the mutex is initialised.         *)
(***************************************************************************)
gba_init ==
    [state |-> "GBA_STATE_PAUSE", started |-> FALSE, speed |-> 0,
     keyinput |-> [f \in KeyFields |-> 0],
     backup_storage_type |-> "BACKUP_NONE",
     backup_storage_source |-> "BACKUP_SOURCE_AUTO_DETECT",
     rtc_auto_detect |-> FALSE, rtc_enabled |-> FALSE,
     bios |-> Bytes(BIOS_SIZE, "zero"), rom |-> Bytes(CART_SIZE, "zero"),
     rom_size |-> 0, backup |-> <<>>, backup_storage_dirty |-> FALSE]

\* struct app before a game is loaded.
\* `plan` holds the records the function in progress passes to
\* gba_message_push, in order, and `base` the number of pushes completed
\* when it was set; `errors` counts the calls of gui_new_error.  The other
\* backup_file is empty (NULL) or holds the contents of the open save file.
\* axis_value is the position of the stick on axis 0 and on axis 1 as the
\* last event of each reported it, and events the number of events handled.
\* The fields after it are history, each empty or of one element: the file each loader
\* was given in the current gui_game_reset, the emulator's state when
\* gui_game_reset was called, and the number of records pushed before it;
\* f1 is the situation in which F1 was last released.
AppInit ==
    [pc |-> "idle", plan |-> <<>>, base |-> 0, errors |-> 0, enabled |-> FALSE,
     backup_type |-> "BACKUP_SRAM", rtc_autodetect |-> TRUE, rtc_enabled |-> FALSE,
     speed |-> 1, unbounded |-> FALSE,
     backup_file |-> <<>>,
     joystick_right |-> FALSE, joystick_left |-> FALSE,
     joystick_down |-> FALSE, joystick_up |-> FALSE,
     axis_value |-> <<0, 0>>, events |-> 0,
     bios_file |-> <<>>, rom_file |-> <<>>, save_file |-> <<>>,
     called_on |-> <<>>, reset_base |-> <<>>,
     pause |-> FALSE, f1 |-> <<>>]

QueueInit == [messages |-> <<>>, length |-> 0, allocated_size |-> 0, lock |-> "free"]

InitLoop ==
    /\ message_queue = QueueInit
    /\ gba = gba_init
    /\ pc_e = "lock"
    /\ message = 0
    /\ frame_calls = 0
    /\ pace = PaceInit
    /\ pc_f = "idle"
    /\ push_msg = TornMsg
    /\ new_size = 0
    /\ pushed = <<>>
    /\ executed = <<>>
    /\ waited = <<>>
    /\ seen_at_lock = 0
    /\ exit_seen = FALSE
    /\ heap = <<>>
    /\ app = AppInit
    /\ qsave = <<>>

(***************************************************************************)
(* The core's memory bus (source/core/bus.c).                              *)
(*                                                                         *)
(* A 32-bit value is the tuple of its four bytes, least significant        *)
(* first; a 16-bit value has its two upper bytes 0.  Memory is a function  *)
(* from 0 .. memory_size - 1 to bytes.                                     *)
(***************************************************************************)
Zero32 == <<0, 0, 0, 0>>

RECURSIVE ByteOr(_, _)
ByteOr(x, y) ==
    IF x = 0 THEN y
    ELSE IF y = 0 THEN x
    ELSE (IF x % 2 = 1 \/ y % 2 = 1 THEN 1 ELSE 0) + 2 * ByteOr(x \div 2, y \div 2)

\* a | b on uint32_t
Or32(a, b) == [i \in 1..4 |-> ByteOr(a[i], b[i])]

\* value >> bits, bits a multiple of 8 below 32
Shr32(w, bits) == [i \in 1..4 |-> IF i + (bits \div 8) <= 4 THEN w[i + (bits \div 8)] ELSE 0]

\* value << bits, bits a multiple of 8.  A shift by the full width of the type
\* is undefined: the machine either masks the count (no shift) or shifts
\* everything out; `masked` says which.
Shl32(w, bits, masked) ==
    IF bits >= 32 THEN (IF masked THEN w ELSE Zero32)
    ELSE [i \in 1..4 |-> IF i - (bits \div 8) >= 1 THEN w[i - (bits \div 8)] ELSE 0]

\* (value >> rotate) | (value << (32 - rotate))
RotateRight(value, rotate, masked) ==
    Or32(Shr32(value, rotate), Shl32(value, 32 - rotate, masked))

\* bswap of a 16-bit and of a 32-bit value
Swap16(w) == <<w[2], w[1], 0, 0>>

Swap32(w) == <<w[4], w[3], w[2], w[1]>>

\* le16toh/htole16, be16toh/htobe16 and the 32-bit ones: the identity on a
\* host of that byte order, a byte swap on the other.
le16(w, h) == IF h.big_endian THEN Swap16(w) ELSE w

be16(w, h) == IF h.big_endian THEN w ELSE Swap16(w)

le32(w, h) == IF h.big_endian THEN Swap32(w) ELSE w

\* Mutation: the value is stored and loaded in the host's byte order.
be32_HostOrder(w, h) == w

be32(w, h) == IF h.big_endian THEN w ELSE Swap32(w)

\* *(uint16_t *)(memory + addr) and *(uint32_t *)(memory + addr) as the host
\* reads them: the byte at the lowest address is the least significant one on
\* a little-endian host and the most significant one on a big-endian host.
HostLoad16(mem, addr, h) ==
    IF h.big_endian THEN <<mem[addr + 1], mem[addr], 0, 0>>
    ELSE <<mem[addr], mem[addr + 1], 0, 0>>

HostLoad32(mem, addr, h) ==
    IF h.big_endian THEN <<mem[addr + 3], mem[addr + 2], mem[addr + 1], mem[addr]>>
    ELSE <<mem[addr], mem[addr + 1], mem[addr + 2], mem[addr + 3]>>

\* *(uint16_t *)(memory + addr) = w and *(uint32_t *)(memory + addr) = w
HostStore16(mem, addr, w, h) ==
    [a \in DOMAIN mem |->
        IF a = addr THEN (IF h.big_endian THEN w[2] ELSE w[1])
        ELSE IF a = addr + 1 THEN (IF h.big_endian THEN w[1] ELSE w[2])
        ELSE mem[a]]

HostStore32(mem, addr, w, h) ==
    [a \in DOMAIN mem |->
        IF a >= addr /\ a <= addr + 3
        THEN (IF h.big_endian THEN w[4 - (a - addr)] ELSE w[1 + (a - addr)])
        ELSE mem[a]]

\* core->memory_size - k on an unsigned type: below zero it wraps to a value
\* above every address of the model.
SizeMinus(size, k) == IF size >= k THEN size - k ELSE 2147483647 - (k - size) + 1

\* Mutation: the address is used as given.
MaskFFFFFFFE_Missing(addr) == addr

\* addr &= 0xFFFFFFFE
MaskFFFFFFFE(addr) == addr - (addr % 2)

\* A dereference of a pointer that is not aligned for its type is undefined:
\* the host performs the access or raises a bus error.
Misaligned(addr, width) == addr % width /= 0

\* The outcome of an access: "ok" with a value, "panic" (the range check
\* failed: the process is terminated) or "trap" (bus error).
Outcome(kind, value, mem) == [outcome |-> kind, value |-> value, memory |-> mem]

core_bus_read8(c, h, addr) ==
    IF addr >= c.memory_size THEN Outcome("panic", Zero32, c.memory)
    ELSE Outcome("ok", <<c.memory[addr], 0, 0, 0>>, c.memory)

\* Mutation: the byte is stored at the halfword-aligned address.
core_bus_write8_Aligned(c, h, addr, val) ==
    IF addr >= c.memory_size THEN Outcome("panic", Zero32, c.memory)
    ELSE Outcome("ok", Zero32, [c.memory EXCEPT ![addr - (addr % 2)] = val[1]])

core_bus_write8(c, h, addr, val) ==
    IF addr >= c.memory_size THEN Outcome("panic", Zero32, c.memory)
    ELSE Outcome("ok", Zero32, [c.memory EXCEPT ![addr] = val[1]])

core_bus_read16(c, h, addr0, masked) ==
    LET rotate == (addr0 % 2) * 8
        addr == MaskFFFFFFFE(addr0)
    IN  IF addr >= SizeMinus(c.memory_size, 1) THEN Outcome("panic", Zero32, c.memory)
        ELSE LET value == IF c.big_endian
                          THEN be16(HostLoad16(c.memory, addr, h), h)
                          ELSE le16(HostLoad16(c.memory, addr, h), h)
             IN  Outcome("ok", RotateRight(value, rotate, masked), c.memory)

core_bus_write16(c, h, addr, val) ==
    IF addr >= SizeMinus(c.memory_size, 1) THEN Outcome("panic", Zero32, c.memory)
    ELSE IF Misaligned(addr, 2) /\ h.unaligned = "trap" THEN Outcome("trap", Zero32, c.memory)
    ELSE Outcome("ok", Zero32,
                 HostStore16(c.memory, addr,
                             IF c.big_endian THEN be16(val, h) ELSE le16(val, h), h))

core_bus_read32(c, h, addr0, masked) ==
    LET rotate == (addr0 % 4) * 8
        addr == MaskFFFFFFFE(addr0)
    IN  IF addr >= SizeMinus(c.memory_size, 3) THEN Outcome("panic", Zero32, c.memory)
        ELSE IF Misaligned(addr, 4) /\ h.unaligned = "trap"
        THEN Outcome("trap", Zero32, c.memory)
        ELSE LET value == IF c.big_endian
                          THEN be32(HostLoad32(c.memory, addr, h), h)
                          ELSE le32(HostLoad32(c.memory, addr, h), h)
             IN  Outcome("ok", RotateRight(value, rotate, masked), c.memory)

core_bus_write32(c, h, addr, val) ==
    IF addr >= SizeMinus(c.memory_size, 3) THEN Outcome("panic", Zero32, c.memory)
    ELSE IF Misaligned(addr, 4) /\ h.unaligned = "trap" THEN Outcome("trap", Zero32, c.memory)
    ELSE Outcome("ok", Zero32,
                 HostStore32(c.memory, addr,
                             IF c.big_endian THEN be32(val, h) ELSE le32(val, h), h))

(***************************************************************************)
(* The core before the first access: every byte of memory differs from the *)
(* others, so that an access to the wrong bytes shows.                     *)
(***************************************************************************)
CoreInit(big_endian) ==
    [memory |-> [a \in 0..(MemSize - 1) |-> 17 * (a + 1)],
     memory_size |-> MemSize,
     big_endian |-> big_endian]

Hosts == [big_endian : BOOLEAN, unaligned : {"access", "trap"}]

NoBusOp == [n |-> 0, op |-> "none", addr |-> 0, val |-> Zero32,
            outcome |-> "ok", result |-> Zero32, before |-> CoreInit(FALSE).memory]

InitCore ==
    /\ core = CoreInit(FALSE)
    /\ host = [big_endian |-> FALSE, unaligned |-> "access"]
    /\ pc_bus = "running"
    /\ bus_op = NoBusOp

Init == InitLoop /\ InitCore

(***************************************************************************)
(* gba_message_push, the front-end thread.  The caller builds the record   *)
(* (one of the NEW_MESSAGE_ macros), then the function takes the lock,     *)
(* grows the buffer and copies the record in, updates the counters and     *)
(* releases the lock.                                                      *)
(***************************************************************************)
\* The call: `msgs` is the set of records the caller may pass.
gba_message_push_call(msgs) ==
    /\ pc_f = "idle"
    /\ Len(pushed) < MaxPush
    /\ \E m \in msgs : push_msg' = [m EXCEPT !.id = Len(pushed) + 1]
    /\ pc_f' = "lock"
    /\ UNCHANGED <<message_queue, gba, pc_e, message, frame_calls, new_size,
                   pushed, executed, waited, seen_at_lock, exit_seen,
                   pace, heap, app, qsave, core, host, pc_bus, bus_op>>

\* pthread_mutex_lock(&gba->message_queue.lock)
gba_message_push_lock ==
    /\ pc_f = "lock"
    /\ MutexFree(message_queue)
    /\ message_queue' = [message_queue EXCEPT !.lock = "front"]
    /\ pc_f' = "copy"
    /\ UNCHANGED <<gba, pc_e, message, frame_calls, push_msg, new_size,
                   pushed, executed, waited, seen_at_lock, exit_seen,
                   pace, heap, app, qsave, core, host, pc_bus, bus_op>>

\* new_size = allocated_size + message->size; realloc; memcpy
gba_message_push_copy ==
    /\ pc_f = "copy"
    /\ new_size' = message_queue.allocated_size + push_msg.size
    /\ message_queue' =
          [message_queue EXCEPT !.messages =
              Memcpy(Realloc(message_queue.messages, new_size'),
                     message_queue.allocated_size, push_msg)]
    /\ pc_f' = "commit"
    /\ UNCHANGED <<gba, pc_e, message, frame_calls, push_msg,
                   pushed, executed, waited, seen_at_lock, exit_seen,
                   pace, heap, app, qsave, core, host, pc_bus, bus_op>>

\* mqueue->length += 1; mqueue->allocated_size = new_size
gba_message_push_commit ==
    /\ pc_f = "commit"
    /\ message_queue' = [message_queue EXCEPT !.length = @ + 1,
                                              !.allocated_size = new_size]
    /\ pc_f' = "unlock"
    /\ UNCHANGED <<gba, pc_e, message, frame_calls, push_msg, new_size,
                   pushed, executed, waited, seen_at_lock, exit_seen,
                   pace, heap, app, qsave, core, host, pc_bus, bus_op>>

\* pthread_mutex_unlock: the push is complete.
gba_message_push_unlock ==
    /\ pc_f = "unlock"
    /\ message_queue' = pthread_mutex_unlock(message_queue)
    /\ pushed' = Append(pushed, push_msg)
    /\ waited' = Append(waited, 0)
    /\ pc_f' = "idle"
    /\ UNCHANGED <<gba, pc_e, message, frame_calls, push_msg, new_size,
                   executed, seen_at_lock, exit_seen,
                   pace, heap, app, qsave, core, host, pc_bus, bus_op>>

(***************************************************************************)
(* The front-end functions that load a game (load_bios, load_rom,          *)
(* load_save, gui_game_reset) and the one-push functions.  A function sets *)
(* the records it pushes next; each is then pushed by gba_message_push,    *)
(* and the function goes on when the last of them is in the queue.         *)
(***************************************************************************)
MaxLoadPush == 2

\* A file as the loader finds it: whether fopen succeeds, the length ftell
\* reports, whether fread returns that many bytes, and (for the save file)
\* whether it can be created.
File(name, opens, len, reads, creates) ==
    [name |-> name, opens |-> opens, len |-> len, reads |-> reads, creates |-> creates]

BiosFiles ==
    {File("bios", FALSE, 0, FALSE, FALSE), File("bios", TRUE, BIOS_SIZE, FALSE, FALSE)}
    \cup {File("bios", TRUE, len, TRUE, FALSE) : len \in {BIOS_SIZE - 1, BIOS_SIZE, BIOS_SIZE + 1}}

RomFiles ==
    {File("rom", FALSE, 0, FALSE, FALSE), File("rom", TRUE, 192, FALSE, FALSE)}
    \cup {File("rom", TRUE, len, TRUE, FALSE) : len \in {191, 192, CART_SIZE, CART_SIZE + 1}}

SaveFiles ==
    {File("save", TRUE, 32768, TRUE, FALSE), File("save", TRUE, 32768, FALSE, FALSE),
     File("save", FALSE, 0, FALSE, TRUE), File("save", FALSE, 0, FALSE, FALSE)}

\* Every record of the plan is in the queue.
PlanDone == pc_f = "idle" /\ Len(pushed) - app.base = Len(app.plan)

SetPlan(a, records) == [a EXCEPT !.plan = records, !.base = Len(pushed)]

\* gba_message_push(app->emulation.gba, <the next record of the function>)
gba_message_push_next ==
    /\ pc_f = "idle"
    /\ Len(pushed) - app.base < Len(app.plan)
    /\ push_msg' = [app.plan[Len(pushed) - app.base + 1] EXCEPT !.id = Len(pushed) + 1]
    /\ pc_f' = "lock"
    /\ UNCHANGED <<message_queue, gba, pc_e, message, frame_calls, new_size,
                   pushed, executed, waited, seen_at_lock, exit_seen,
                   pace, heap, app, qsave, core, host, pc_bus, bus_op>>

\* A front-end function may be called: none is in progress.
AppIdle == app.pc = "idle" /\ PlanDone /\ Len(pushed) < MaxLoadPush

FrontEndStep(a, h) ==
    /\ app' = a
    /\ heap' = h
    /\ UNCHANGED <<message_queue, gba, pc_e, message, frame_calls, pace, pc_f, push_msg,
                   new_size, pushed, executed, waited, seen_at_lock, exit_seen,
                   qsave, core, host, pc_bus, bus_op>>

\* The emulator has executed every record pushed and is not in a drain.
Quiescent == Len(executed) = Len(pushed) /\ pc_e /= "drain" /\ ~exit_seen

\* The state the error policy speaks of.
StateOf(g) == [state |-> g.state, started |-> g.started, bios |-> g.bios, rom |-> g.rom]

\* gui_game_reset up to its call of load_bios: Pause and Reset are pushed.
gui_game_reset ==
    /\ AppIdle
    /\ FrontEndStep(
          SetPlan([app EXCEPT !.pc = "load_bios",
                              !.bios_file = <<>>, !.rom_file = <<>>,
                              !.save_file = <<>>,
                              !.reset_base = <<Len(pushed)>>,
                              !.called_on = IF Quiescent
                                             THEN <<[gba |-> StateOf(gba),
                                                     errors |-> app.errors]>>
                                             ELSE <<>>],
                  <<NEW_MESSAGE_PAUSE, NEW_MESSAGE_RESET>>),
          heap)

\* The else branch of gui_game_reset: a loader returned true.
ResetFailed(a) == SetPlan([a EXCEPT !.pc = "idle", !.enabled = FALSE], <<>>)

\* gui_new_error(app, error_msg)
gui_new_error(a) == [a EXCEPT !.errors = @ + 1]

load_bios(file) ==
    /\ app.pc = "load_bios"
    /\ PlanDone
    /\ LET a == [app EXCEPT !.bios_file = <<file>>] IN
       IF ~file.opens \/ file.len /= BIOS_SIZE
       THEN FrontEndStep(ResetFailed(gui_new_error(a)), heap)
       ELSE IF ~file.reads
       THEN FrontEndStep(ResetFailed(gui_new_error(a)),
                         Append(heap, Cleanup(<<Buffer(Bytes(0, "zero"))>>, [data |-> 1])[1]))
       ELSE FrontEndStep(
                SetPlan([a EXCEPT !.pc = "load_rom"],
                        <<NEW_MESSAGE_LOAD_BIOS(Len(heap) + 1, TRUE)>>),
                Append(heap, Buffer(Bytes(BIOS_SIZE, file.name))))

\* Mutation: the two limits are themselves refused.
RomInvalid_Strict(file_len) == file_len >= CART_SIZE \/ file_len <= 192

\* if (file_len > CART_SIZE || file_len < 192)
RomInvalid(file_len) == file_len > CART_SIZE \/ file_len < 192

load_rom(file) ==
    /\ app.pc = "load_rom"
    /\ PlanDone
    /\ LET a == [app EXCEPT !.rom_file = <<[file |-> file, base |-> Len(pushed),
                                            errors |-> app.errors]>>]
           rtc_state == IF app.rtc_autodetect THEN "DEVICE_AUTO_DETECT"
                        ELSE IF app.rtc_enabled THEN "DEVICE_ENABLED"
                        ELSE "DEVICE_DISABLED"
       IN
       IF ~file.opens \/ RomInvalid(file.len)
       THEN FrontEndStep(ResetFailed(gui_new_error(a)), heap)
       ELSE IF ~file.reads
       THEN FrontEndStep(ResetFailed(gui_new_error(a)),
                         Append(heap, Cleanup(<<Buffer(Bytes(0, "zero"))>>, [data |-> 1])[1]))
       ELSE FrontEndStep(
                SetPlan([a EXCEPT !.pc = "load_save"],
                        <<NEW_MESSAGE_LOAD_ROM(Len(heap) + 1, file.len, TRUE),
                          NEW_MESSAGE_BACKUP_TYPE(app.backup_type),
                          NEW_MESSAGE_RTC(rtc_state)>>),
                Append(heap, Buffer(Bytes(file.len, file.name))))

load_save(file) ==
    /\ app.pc = "load_save"
    /\ PlanDone
    /\ LET a == [app EXCEPT !.save_file = <<file>>, !.pc = "run",
                            !.backup_file =
                                IF file.opens THEN <<Bytes(file.len, file.name)>>
                                ELSE IF file.creates THEN <<Bytes(0, "zero")>>
                                ELSE <<>>]
       IN
       IF file.opens
       THEN IF file.reads
            THEN FrontEndStep(
                     SetPlan(a, <<NEW_MESSAGE_LOAD_BACKUP(Len(heap) + 1, file.len, TRUE)>>),
                     Append(heap, Buffer(Bytes(file.len, file.name))))
            ELSE FrontEndStep(SetPlan(a, <<>>), Append(heap, Buffer(Bytes(0, "zero"))))
       ELSE IF file.creates
            THEN FrontEndStep(SetPlan(a, <<>>), heap)
            ELSE FrontEndStep(ResetFailed(gui_new_error(a)), heap)

\* NEW_MESSAGE_RUN(app->emulation.speed * !app->emulation.unbounded)
RunRecord(a) == NEW_MESSAGE_RUN(IF a.unbounded THEN 0 ELSE a.speed)

\* The three loaders returned false: enabled, Reset, gui_game_run.
gui_game_reset_run ==
    /\ app.pc = "run"
    /\ PlanDone
    /\ FrontEndStep(SetPlan([app EXCEPT !.pc = "idle", !.enabled = TRUE,
                                        !.pause = FALSE],
                            <<NEW_MESSAGE_RESET, RunRecord(app)>>),
                    heap)

gui_game_run ==
    /\ AppIdle
    /\ FrontEndStep(SetPlan(app, <<RunRecord(app)>>), heap)

\* A call of gba_message_push with a record that carries a payload: the
\* caller has allocated the payload (calloc and fread in the loaders, the
\* path in gui_game_quicksave and gui_game_quickload) and passes free as
\* the cleanup, or no cleanup when the payload is not the record's to free.
DataRecords(data) ==
    {NEW_MESSAGE_LOAD_BIOS(data, TRUE), NEW_MESSAGE_LOAD_ROM(data, 192, TRUE),
     NEW_MESSAGE_LOAD_BACKUP(data, 32768, TRUE), NEW_MESSAGE_QUICKLOAD(data, TRUE)}
    \cup {NEW_MESSAGE_QUICKSAVE(data, c) : c \in BOOLEAN}

PayloadOf(m) ==
    CASE m.type = "MESSAGE_LOAD_BIOS" -> Bytes(BIOS_SIZE, "bios")
      [] m.type = "MESSAGE_LOAD_ROM" -> Bytes(192, "rom")
      [] m.type = "MESSAGE_LOAD_BACKUP" -> Bytes(32768, "save")
      [] OTHER -> Bytes(1, "qsave_path")

gba_message_push_data ==
    /\ pc_f = "idle"
    /\ Len(pushed) < MaxPush
    /\ \E m \in DataRecords(Len(heap) + 1) :
          /\ push_msg' = [m EXCEPT !.id = Len(pushed) + 1]
          /\ heap' = Append(heap, Buffer(PayloadOf(m)))
    /\ pc_f' = "lock"
    /\ UNCHANGED <<message_queue, gba, pc_e, message, frame_calls, new_size,
                   pushed, executed, waited, seen_at_lock, exit_seen,
                   pace, app, qsave, core, host, pc_bus, bus_op>>

(***************************************************************************)
(* gba_run, the emulator thread.                                           *)
(***************************************************************************)
\* Mutation: the loop stops with one record left.
DrainContinues_OffByOne(q) == q.length > 1

\* while (mqueue->length)
DrainContinues(q) == q.length /= 0

\* Mutation: the pointer is advanced by one header, not by the record's size.
NextMessage_Increment(off, m) == off + 1

\* message = (struct message *)((uint8_t *)message + message->size)
NextMessage(off, m) == off + m.size

\* Mutation: `break` instead of `return`, the loop goes on to the frame.
ExitTarget_Break == "frame"

\* case MESSAGE_EXIT: unlock and `return`: where the thread goes.
ExitTarget == "returned"

\* Mutation: the frame is run whatever the state.
FrameDue_Always(g) == TRUE

\* if (gba->state == GBA_STATE_RUN)
FrameDue(g) == g.state = "GBA_STATE_RUN"

ExecutedIds == {executed[i].msg.id : i \in 1..Len(executed)}

\* Top of the loop: pthread_mutex_lock; message = mqueue->messages.
gba_run_lock ==
    /\ pc_e = "lock"
    /\ MutexFree(message_queue)
    /\ message_queue' = [message_queue EXCEPT !.lock = "emu"]
    /\ message' = 0
    /\ frame_calls' = 0
    /\ seen_at_lock' = Len(pushed)
    /\ pc_e' = "drain"
    /\ UNCHANGED <<gba, pc_f, push_msg, new_size, pushed, executed, waited, exit_seen,
                   pace, heap, app, qsave, core, host, pc_bus, bus_op>>

\* One turn of the drain's while loop on a record that is not Exit.
gba_run_execute ==
    /\ pc_e = "drain"
    /\ DrainContinues(message_queue)
    /\ LET m == MessageAt(message_queue.messages, message) IN
         /\ m.type /= "MESSAGE_EXIT"
         /\ \E det \in BackupTypes, clears \in BOOLEAN :
              /\ gba' = Execute(gba, m, [det |-> det, clears |-> clears,
                                         heap |-> heap, file |-> qsave])
              /\ executed' = Append(executed,
                    [msg |-> m, off |-> message, before |-> gba, after |-> gba'])
         /\ heap' = ExecuteHeap(heap, m)
         /\ qsave' = ExecuteFile(qsave, gba, m)
         /\ message_queue' = [message_queue EXCEPT !.allocated_size = @ - m.size,
                                                   !.length = @ - 1]
         /\ pace' = IF m.type = "MESSAGE_RUN" THEN RunPace(pace, m) ELSE pace
         /\ message' = NextMessage(message, m)
    /\ UNCHANGED <<pc_e, frame_calls, pc_f, push_msg, new_size, pushed, waited,
                   seen_at_lock, exit_seen, app,
                   core, host, pc_bus, bus_op>>

\* case MESSAGE_EXIT: pthread_mutex_unlock; return.
gba_run_exit ==
    /\ pc_e = "drain"
    /\ DrainContinues(message_queue)
    /\ MessageAt(message_queue.messages, message).type = "MESSAGE_EXIT"
    /\ message_queue' = pthread_mutex_unlock(message_queue)
    /\ exit_seen' = TRUE
    /\ pc_e' = ExitTarget
    /\ UNCHANGED <<gba, message, frame_calls, pc_f, push_msg, new_size, pushed,
                   executed, waited, seen_at_lock,
                   pace, heap, app, qsave, core, host, pc_bus, bus_op>>

\* The queue is empty: free(mqueue->messages); messages = NULL; unlock.
gba_run_drained ==
    /\ pc_e = "drain"
    /\ ~DrainContinues(message_queue)
    /\ message_queue' =
          pthread_mutex_unlock([message_queue EXCEPT !.messages = <<>>])
    /\ pc_e' = "frame"
    /\ UNCHANGED <<gba, message, frame_calls, pc_f, push_msg, new_size, pushed,
                   executed, waited, seen_at_lock, exit_seen,
                   pace, heap, app, qsave, core, host, pc_bus, bus_op>>

\* The frames a pending record is seen to wait for are counted up to here.
MaxWaited == 2

\* if (gba->state == GBA_STATE_RUN) sched_run_for(gba, CYCLES_PER_FRAME)
gba_run_frame ==
    /\ pc_e = "frame"
    /\ IF FrameDue(gba)
       THEN /\ frame_calls' = frame_calls + 1
            /\ waited' = [i \in 1..Len(waited) |->
                            IF pushed[i].id \in ExecutedIds \/ waited[i] = MaxWaited
                            THEN waited[i]
                            ELSE waited[i] + 1]
       ELSE UNCHANGED <<frame_calls, waited>>
    /\ pc_e' = "pace"
    /\ UNCHANGED <<message_queue, gba, message, pc_f, push_msg, new_size, pushed,
                   executed, seen_at_lock, exit_seen,
                   pace, heap, app, qsave, core, host, pc_bus, bus_op>>

\* Iterations of the loop in which the clock does not follow the pacing.
MaxTicks == 3

\* Limit FPS.  `delays` are the times the clock may have advanced between
\* the last measurement and this one, `lates` the differences between the
\* time hs_usleep takes and the time it was asked to take.  Besides the two
\* locals, pace records what the iteration did: accumulated_time after the
\* first measurement, the sleep requested (-1: none), the consecutive
\* iterations without a sleep (counted up to MaxTicks), and the iterations
\* that were not on time.
gba_run_pace(delays, lates) ==
    /\ pc_e = "pace"
    /\ IF gba.speed /= 0
       THEN \E d \in delays, l \in lates :
              /\ (d = 0 /\ l = 0) \/ pace.ticks < MaxTicks
              /\ LET measured == pace.accumulated_time + d
                     sleeps == ULess(measured, pace.time_per_frame)
                     request == pace.time_per_frame - measured
                     after == IF sleeps THEN measured + (request + l) ELSE measured
                 IN  pace' = [pace EXCEPT
                                !.accumulated_time = after - pace.time_per_frame,
                                !.measured = measured,
                                !.request = IF sleeps THEN request ELSE -1,
                                !.skips = IF sleeps THEN 0
                                          ELSE IF @ < MaxTicks THEN @ + 1 ELSE @,
                                !.ticks = IF d = 0 /\ l = 0 THEN @ ELSE @ + 1]
       ELSE pace' = [pace EXCEPT !.accumulated_time = 0, !.measured = 0,
                                 !.request = -1, !.skips = 0]
    /\ pc_e' = "lock"
    /\ UNCHANGED <<message_queue, gba, message, frame_calls, pc_f, push_msg,
                   new_size, pushed, executed, waited, seen_at_lock, exit_seen,
                   heap, app, qsave, core, host, pc_bus, bus_op>>

\* The emulator thread is never held up: the clock advances only in the
\* pacing sleep, which lasts as long as asked.
OnTime == {0}

(***************************************************************************)
(* The records the front-end pushes in the run-loop specification.         *)
(***************************************************************************)
Messages ==
    {NEW_MESSAGE_EXIT, NEW_MESSAGE_RESET, NEW_MESSAGE_PAUSE,
     NEW_MESSAGE_RUN(0), NEW_MESSAGE_RUN(1),
     NEW_MESSAGE_KEYINPUT("KEY_A", TRUE),
     NEW_MESSAGE_BACKUP_TYPE("BACKUP_SRAM")}

Emulator ==
    \/ gba_run_lock
    \/ gba_run_execute
    \/ gba_run_exit
    \/ gba_run_drained
    \/ gba_run_frame
    \/ gba_run_pace(OnTime, OnTime)

\* The loop as long as no Exit record is pushed.
EmulatorRunning ==
    \/ gba_run_lock
    \/ gba_run_execute
    \/ gba_run_drained
    \/ gba_run_frame
    \/ gba_run_pace(OnTime, OnTime)

FrontEnd ==
    \/ gba_message_push_lock
    \/ gba_message_push_copy
    \/ gba_message_push_commit
    \/ gba_message_push_unlock

Next ==
    \/ gba_message_push_call(Messages)
    \/ FrontEnd
    \/ Emulator

Spec == Init /\ [][Next]_vars

(***************************************************************************)
(* The run loop fed with the configuration commands.                       *)
(***************************************************************************)
ConfigMessages ==
    {NEW_MESSAGE_EXIT, NEW_MESSAGE_RESET, NEW_MESSAGE_PAUSE, NEW_MESSAGE_RUN(1),
     NEW_MESSAGE_BACKUP_TYPE("BACKUP_SRAM"), NEW_MESSAGE_BACKUP_TYPE("BACKUP_AUTO_DETECT"),
     NEW_MESSAGE_RTC("DEVICE_ENABLED"), NEW_MESSAGE_RTC("DEVICE_AUTO_DETECT"),
     NEW_MESSAGE_RTC("DEVICE_DISABLED")}

NextConfig ==
    \/ gba_message_push_call(ConfigMessages)
    \/ FrontEnd
    \/ Emulator

SpecConfig == Init /\ [][NextConfig]_vars

(***************************************************************************)
(* The drain of one KeyInput record, for every key, both values of         *)
(* `pressed` and every value of KEYINPUT: the state after one completed    *)
(* push of the record, with the emulator at the top of its loop.           *)
(***************************************************************************)
KeyMessages == {NEW_MESSAGE_KEYINPUT(k, p) : k \in Keys, p \in BOOLEAN}

InitKeys ==
    /\ \E m \in KeyMessages :
          /\ pushed = <<[m EXCEPT !.id = 1]>>
          /\ message_queue = [messages |-> Cells([m EXCEPT !.id = 1]), length |-> 1,
                              allocated_size |-> m.size, lock |-> "free"]
    /\ \E io \in [KeyFields -> {0, 1}] : gba = [gba_init EXCEPT !.keyinput = io]
    /\ pc_e = "lock"
    /\ message = 0
    /\ frame_calls = 0
    /\ pace = PaceInit
    /\ pc_f = "idle"
    /\ push_msg = TornMsg
    /\ new_size = 0
    /\ executed = <<>>
    /\ waited = <<0>>
    /\ seen_at_lock = 0
    /\ exit_seen = FALSE
    /\ heap = <<>>
    /\ app = AppInit
    /\ qsave = <<>>
    /\ InitCore

NextKeys ==
    \/ gba_run_lock
    \/ gba_run_execute
    \/ gba_run_drained
    \/ gba_run_frame
    \/ gba_run_pace(OnTime, OnTime)

SpecKeys == InitKeys /\ [][NextKeys]_vars

(***************************************************************************)
(* The run loop fed by the front-end functions that load a game, start it  *)
(* and save or restore its state.                                          *)
(***************************************************************************)
Loaders(bios_files, rom_files, save_files) ==
    \/ gui_game_reset
    \/ \E file \in bios_files : load_bios(file)
    \/ \E file \in rom_files : load_rom(file)
    \/ \E file \in save_files : load_save(file)
    \/ gui_game_reset_run
    \/ gui_game_run

\* Every kind of BIOS file and of save file, with a ROM that cannot be
\* opened or is the smallest valid one.
NextLoad ==
    \/ Loaders(BiosFiles, {f \in RomFiles : ~f.opens \/ (f.len = 192 /\ f.reads)},
               {f \in SaveFiles : f.opens \/ ~f.creates})
    \/ gba_message_push_next
    \/ FrontEnd
    \/ EmulatorRunning

SpecLoad == Init /\ [][NextLoad]_vars

\* Every kind of ROM file, with a BIOS that loads and no save file yet.
NextRom ==
    \/ Loaders({f \in BiosFiles : f.opens /\ f.reads /\ f.len = BIOS_SIZE}, RomFiles,
               {f \in SaveFiles : ~f.opens /\ f.creates})
    \/ gba_message_push_next
    \/ FrontEnd
    \/ EmulatorRunning

SpecRom == Init /\ [][NextRom]_vars

\* Files that load: gui_game_reset goes through, with a save file that is
\* read or one whose read comes back short.
NextReset ==
    \/ Loaders({f \in BiosFiles : f.opens /\ f.reads /\ f.len = BIOS_SIZE},
               {f \in RomFiles : f.opens /\ f.reads /\ f.len = 192},
               {f \in SaveFiles : f.opens})
    \/ gba_message_push_next
    \/ FrontEnd
    \/ EmulatorRunning

SpecReset == Init /\ [][NextReset]_vars

(***************************************************************************)
(* The run loop fed with the records that carry a payload, with and        *)
(* without a cleanup callback, and with Exit.                              *)
(***************************************************************************)
NextData ==
    \/ gba_message_push_data
    \/ gba_message_push_call({NEW_MESSAGE_EXIT})
    \/ FrontEnd
    \/ Emulator

SpecData == Init /\ [][NextData]_vars

(***************************************************************************)
(* The run loop fed with load commands whose payloads are shorter than,    *)
(* as long as and longer than the region they fill, and with the commands  *)
(* that choose the type of the backup storage.  A payload is two runs of   *)
(* bytes, so that a copy from or to the wrong offset shows.                *)
(***************************************************************************)
HeaderLen == 192

RomSizes == {HeaderLen, 4096, CART_SIZE + HeaderLen}

SaveSizes == {512, backup_storage_sizes("BACKUP_FLASH64") + 512}

LoadPayload(m) ==
    CASE m.type = "MESSAGE_LOAD_BIOS" -> Bytes(BIOS_SIZE, "bios")
      [] m.type = "MESSAGE_LOAD_ROM" ->
            Bytes(HeaderLen, "rom_header") \o Bytes(m.data_size - HeaderLen, "rom_body")
      [] OTHER -> Bytes(256, "save_low") \o Bytes(m.data_size - 256, "save_high")

LoadRecords(data) ==
    {NEW_MESSAGE_LOAD_BIOS(data, TRUE)}
    \cup {NEW_MESSAGE_LOAD_ROM(data, n, TRUE) : n \in RomSizes}
    \cup {NEW_MESSAGE_LOAD_BACKUP(data, n, TRUE) : n \in SaveSizes}

gba_message_push_load ==
    /\ pc_f = "idle"
    /\ Len(pushed) < MaxPush
    /\ \E m \in LoadRecords(Len(heap) + 1) :
          /\ push_msg' = [m EXCEPT !.id = Len(pushed) + 1]
          /\ heap' = Append(heap, Buffer(LoadPayload(m)))
    /\ pc_f' = "lock"
    /\ UNCHANGED <<message_queue, gba, pc_e, message, frame_calls, new_size,
                   pushed, executed, waited, seen_at_lock, exit_seen,
                   pace, app, qsave, core, host, pc_bus, bus_op>>

TypeMessages ==
    {NEW_MESSAGE_BACKUP_TYPE(t) : t \in {"BACKUP_SRAM", "BACKUP_FLASH64"}}

NextFill ==
    \/ gba_message_push_load
    \/ gba_message_push_call(TypeMessages)
    \/ FrontEnd
    \/ EmulatorRunning

SpecFill == Init /\ [][NextFill]_vars

(***************************************************************************)
(* The run loop fed by gui_game_handle_events: a key or a controller       *)
(* button bound to a GBA key goes down or up and the handler pushes the    *)
(* KeyInput record of it; Run starts the frames.                           *)
(***************************************************************************)
InputMessages ==
    {NEW_MESSAGE_RUN(1),
     NEW_MESSAGE_KEYINPUT("KEY_A", TRUE), NEW_MESSAGE_KEYINPUT("KEY_A", FALSE),
     NEW_MESSAGE_KEYINPUT("KEY_START", FALSE)}

NextInput ==
    \/ gba_message_push_call(InputMessages)
    \/ FrontEnd
    \/ gba_run_lock
    \/ gba_run_execute
    \/ gba_run_drained
    \/ gba_run_frame
    \/ gba_run_pace(OnTime, OnTime)

SpecInput == Init /\ [][NextInput]_vars

(***************************************************************************)
(* The run loop fed with records of an unknown type among known ones.      *)
(***************************************************************************)
UnknownMessages ==
    {UnknownMsg(1), UnknownMsg(3), NEW_MESSAGE_RUN(1), NEW_MESSAGE_PAUSE,
     NEW_MESSAGE_KEYINPUT("KEY_A", FALSE)}

NextUnknown ==
    \/ gba_message_push_call(UnknownMessages)
    \/ FrontEnd
    \/ EmulatorRunning

SpecUnknown == Init /\ [][NextUnknown]_vars

(***************************************************************************)
(* The save file.  The game, running on the emulator thread inside         *)
(* sched_run_for, stores to the backup storage, which sets                 *)
(* memory.backup_storage_dirty; the front-end thread calls                 *)
(* gui_game_write_backup from time to time.  Neither takes a lock.  The    *)
(* specification starts with an SRAM game running, its save file open or,  *)
(* when load_save could neither open nor create it, NULL.                  *)
(***************************************************************************)
MaxBackupWrites == 2

\* The contents of the storage: as loaded, then after each store.
BackupVersions == <<"save", "store1", "store2", "store3">>

VersionOf(backup) == CHOOSE i \in 1..Len(BackupVersions) : BackupVersions[i] = backup[1].of

\* A store of the game to the backup storage.
mem_backup_storage_write(g) ==
    [g EXCEPT !.backup = Bytes(backup_storage_sizes(g.backup_storage_type),
                               BackupVersions[VersionOf(g.backup) + 1]),
              !.backup_storage_dirty = TRUE]

sched_run_for_store ==
    /\ pc_e = "frame"
    /\ FrameDue(gba)
    /\ VersionOf(gba.backup) <= MaxBackupWrites
    /\ gba' = mem_backup_storage_write(gba)
    /\ UNCHANGED <<message_queue, pc_e, message, frame_calls, pace, pc_f, push_msg,
                   new_size, pushed, executed, waited, seen_at_lock, exit_seen,
                   heap, app, qsave, core, host, pc_bus, bus_op>>

\* if (backup_file && backup_storage_data && backup_storage_dirty)
WriteBackupDue(a, g) ==
    a.backup_file /= <<>> /\ g.backup /= <<>> /\ g.backup_storage_dirty

gui_game_write_backup_check ==
    /\ pc_f = "idle"
    /\ pc_f' = IF WriteBackupDue(app, gba) THEN "fwrite" ELSE "clear"
    /\ UNCHANGED <<message_queue, gba, pc_e, message, frame_calls, pace, push_msg,
                   new_size, pushed, executed, waited, seen_at_lock, exit_seen,
                   heap, app, qsave, core, host, pc_bus, bus_op>>

\* fseek(backup_file, 0, SEEK_SET); fwrite(backup_storage_data, size, 1, backup_file)
gui_game_write_backup_fwrite ==
    /\ pc_f = "fwrite"
    /\ app' = [app EXCEPT !.backup_file =
                  <<MemcpyBytes(IF RunsLen(@[1]) < RunsLen(gba.backup)
                                THEN gba.backup ELSE @[1],
                                gba.backup, RunsLen(gba.backup))>>]
    /\ pc_f' = "clear"
    /\ UNCHANGED <<message_queue, gba, pc_e, message, frame_calls, pace, push_msg,
                   new_size, pushed, executed, waited, seen_at_lock, exit_seen,
                   heap, qsave, core, host, pc_bus, bus_op>>

\* backup_storage_dirty = false
gui_game_write_backup_clear ==
    /\ pc_f = "clear"
    /\ gba' = [gba EXCEPT !.backup_storage_dirty = FALSE]
    /\ pc_f' = "idle"
    /\ UNCHANGED <<message_queue, pc_e, message, frame_calls, pace, push_msg,
                   new_size, pushed, executed, waited, seen_at_lock, exit_seen,
                   heap, app, qsave, core, host, pc_bus, bus_op>>

BackupMessages == {NEW_MESSAGE_PAUSE, NEW_MESSAGE_RUN(1)}

InitBackup ==
    /\ message_queue = QueueInit
    /\ gba = [gba_init EXCEPT !.state = "GBA_STATE_RUN", !.started = TRUE, !.speed = 1,
                              !.keyinput = io_init(@),
                              !.backup_storage_type = "BACKUP_SRAM",
                              !.backup_storage_source = "BACKUP_SOURCE_MANUAL",
                              !.backup = Bytes(backup_storage_sizes("BACKUP_SRAM"),
                                               BackupVersions[1])]
    /\ \E file \in {<<>>, <<Bytes(backup_storage_sizes("BACKUP_SRAM"), BackupVersions[1])>>} :
          app = [AppInit EXCEPT !.enabled = file /= <<>>, !.backup_file = file]
    /\ pc_e = "lock"
    /\ message = 0
    /\ frame_calls = 0
    /\ pace = RunPace(PaceInit, NEW_MESSAGE_RUN(1))
    /\ pc_f = "idle"
    /\ push_msg = TornMsg
    /\ new_size = 0
    /\ pushed = <<>>
    /\ executed = <<>>
    /\ waited = <<>>
    /\ seen_at_lock = 0
    /\ exit_seen = FALSE
    /\ heap = <<>>
    /\ qsave = <<>>
    /\ InitCore

NextBackup ==
    \/ gba_message_push_call(BackupMessages)
    \/ FrontEnd
    \/ EmulatorRunning
    \/ sched_run_for_store
    \/ gui_game_write_backup_check
    \/ gui_game_write_backup_fwrite
    \/ gui_game_write_backup_clear

SpecBackup == InitBackup /\ [][NextBackup]_vars

(***************************************************************************)
(* gba_run called again on the same struct gba after it returned on an     *)
(* Exit: the queue is as the return left it.                               *)
(***************************************************************************)
gba_run_again ==
    /\ pc_e = "returned"
    /\ pc_e' = "lock"
    /\ pace' = PaceInit
    /\ UNCHANGED <<message_queue, gba, message, frame_calls, pc_f, push_msg,
                   new_size, pushed, executed, waited, seen_at_lock, exit_seen,
                   heap, app, qsave, core, host, pc_bus, bus_op>>

ExitMessages == {NEW_MESSAGE_EXIT, NEW_MESSAGE_PAUSE, NEW_MESSAGE_RUN(1)}

NextExit ==
    \/ gba_message_push_call(ExitMessages)
    \/ FrontEnd
    \/ Emulator
    \/ gba_run_again

SpecExit == Init /\ [][NextExit]_vars

(***************************************************************************)
(* gui_game_handle_events, case SDL_CONTROLLERAXISMOTION: the stick of a   *)
(* controller moves on one of its two axes.                                *)
(***************************************************************************)
MaxAxisEvents == 2

INT16_MAX == 32767

INT16_MIN == 0 - 32768

\* Integer division of C, which truncates toward zero.
CDiv(a, b) == IF a >= 0 THEN a \div b ELSE 0 - ((0 - a) \div b)

\* The stick at rest, just under and at each threshold, and at each end.
AxisValues ==
    {INT16_MIN, CDiv(INT16_MIN, 2), CDiv(INT16_MIN, 2) + 1, 0,
     CDiv(INT16_MAX, 2) - 1, CDiv(INT16_MAX, 2), INT16_MAX}

\* The if / else if chain: the fields it assigns and the record it pushes.
AxisMotion(a, axis, value) ==
    LET state_a == value >= CDiv(INT16_MAX, 2)
        state_b == value <= CDiv(INT16_MIN, 2)
    IN  IF axis = 0 /\ state_a /= a.joystick_right
        THEN [app |-> [a EXCEPT !.joystick_right = state_a],
              push |-> <<NEW_MESSAGE_KEYINPUT("KEY_RIGHT", state_a)>>]
        ELSE IF axis = 0 /\ state_b /= a.joystick_left
        THEN [app |-> [a EXCEPT !.joystick_left = state_b],
              push |-> <<NEW_MESSAGE_KEYINPUT("KEY_LEFT", state_b)>>]
        ELSE IF axis = 1 /\ state_a /= a.joystick_down
        THEN [app |-> [a EXCEPT !.joystick_down = state_a],
              push |-> <<NEW_MESSAGE_KEYINPUT("KEY_DOWN", state_a)>>]
        ELSE IF axis = 1 /\ state_b /= a.joystick_up
        THEN [app |-> [a EXCEPT !.joystick_up = state_b],
              push |-> <<NEW_MESSAGE_KEYINPUT("KEY_UP", state_b)>>]
        ELSE [app |-> a, push |-> <<>>]

gui_game_handle_events_axis ==
    /\ app.pc = "idle"
    /\ PlanDone
    /\ app.events < MaxAxisEvents
    /\ \E axis \in {0, 1}, value \in AxisValues :
          LET r == AxisMotion(app, axis, value) IN
          FrontEndStep(SetPlan([r.app EXCEPT !.axis_value[axis + 1] = value,
                                             !.events = @ + 1],
                               r.push),
                       heap)

NextAxis ==
    \/ gui_game_handle_events_axis
    \/ gba_message_push_next
    \/ FrontEnd
    \/ EmulatorRunning

SpecAxis == Init /\ [][NextAxis]_vars

(***************************************************************************)
(* The functions of the front-end that start, pause and stop a game, and   *)
(* gui_game_handle_events on the release of F1.                            *)
(***************************************************************************)
gui_game_stop ==
    /\ AppIdle
    /\ FrontEndStep(SetPlan([app EXCEPT !.enabled = FALSE, !.pause = TRUE],
                            <<NEW_MESSAGE_PAUSE, NEW_MESSAGE_RESET>>),
                    heap)

gui_game_pause ==
    /\ AppIdle
    /\ FrontEndStep(SetPlan(app, <<NEW_MESSAGE_PAUSE>>), heap)

\* The last Run or Pause record pushed is a Pause.
PausePushedLast ==
    LET is == {i \in 1..Len(pushed) : pushed[i].type \in {"MESSAGE_RUN", "MESSAGE_PAUSE"}}
    IN  is /= {} /\ pushed[CHOOSE i \in is : \A j \in is : j <= i].type = "MESSAGE_PAUSE"

\* case SDLK_F1 of SDL_KEYUP: unbounded ^= 1; push Run(speed * !unbounded)
gui_game_handle_events_F1 ==
    /\ AppIdle
    /\ LET a == [app EXCEPT !.unbounded = ~@,
                            !.f1 = <<[base |-> Len(pushed),
                                      stopped |-> ~app.enabled \/ PausePushedLast,
                                      quiescent |-> Quiescent,
                                      started |-> gba.started]>>]
       IN  FrontEndStep(SetPlan(a, <<RunRecord(a)>>), heap)

NextF1 ==
    \/ gui_game_run
    \/ gui_game_pause
    \/ gui_game_stop
    \/ gui_game_handle_events_F1
    \/ gba_message_push_next
    \/ FrontEnd
    \/ EmulatorRunning

SpecF1 == Init /\ [][NextF1]_vars

(***************************************************************************)
(* The run loop on a clock that moves: every iteration takes the time of a *)
(* frame or, when the thread was preempted, a long stall, and hs_usleep    *)
(* returns on time or one microsecond early.                               *)
(***************************************************************************)
PaceMessages == {NEW_MESSAGE_RUN(1), NEW_MESSAGE_RUN(0)}

\* Microseconds from one measurement to the next: a frame's work, a stall.
PaceDelays == {5000, 100000}

PaceLates == {0 - 1, 0}

NextPace ==
    \/ gba_message_push_call(PaceMessages)
    \/ FrontEnd
    \/ gba_run_lock
    \/ gba_run_execute
    \/ gba_run_drained
    \/ gba_run_frame
    \/ gba_run_pace(PaceDelays, PaceLates)

SpecPace == Init /\ [][NextPace]_vars

(***************************************************************************)
(* The same two threads under fair scheduling: a thread that can take a    *)
(* step eventually takes one (the emulator loop never blocks except on the *)
(* mutex, and a push holds the mutex for three steps).  The front-end is   *)
(* free never to call gba_message_push again.                              *)
(***************************************************************************)
LiveMessages == {NEW_MESSAGE_EXIT, NEW_MESSAGE_RUN(1), NEW_MESSAGE_PAUSE}

NextLive ==
    \/ gba_message_push_call(LiveMessages)
    \/ FrontEnd
    \/ Emulator

FairSpec == Init /\ [][NextLive]_vars /\ WF_vars(Emulator) /\ WF_vars(FrontEnd)

(***************************************************************************)
(* The same, with a mutex that does not starve a waiter: a thread blocked  *)
(* in pthread_mutex_lock gets the mutex if it is free again and again.     *)
(* The emulator leaves it free for the whole of sched_run_for and of the   *)
(* pacing sleep, far longer than it holds it.                              *)
(***************************************************************************)
FairLockSpec ==
    /\ Init /\ [][NextLive]_vars
    /\ WF_vars(Emulator)
    /\ WF_vars(FrontEnd)
    /\ SF_vars(gba_message_push_lock)

(***************************************************************************)
(* The bus accesses of a program running on the core: up to MaxBusOps      *)
(* reads and writes of each width, at every address from 0 to two bytes    *)
(* past the end of memory, on a core of either byte order and on each kind *)
(* of host.  A panic or a bus error ends the run.                          *)
(***************************************************************************)
Addrs == 0..(MemSize + 1)

Values8 == {<<165, 0, 0, 0>>}

Values16 == {<<239, 190, 0, 0>>}

\* 0xDEADBEEF
Values32 == {<<239, 190, 173, 222>>}

BusAccess(op, addr, val, r) ==
    /\ core' = [core EXCEPT !.memory = r.memory]
    /\ bus_op' = [n |-> bus_op.n + 1, op |-> op, addr |-> addr, val |-> val,
                  outcome |-> r.outcome, result |-> r.value, before |-> core.memory]
    /\ pc_bus' = IF r.outcome = "ok" THEN "running" ELSE r.outcome
    /\ UNCHANGED <<host, message_queue, gba, pc_e, message, frame_calls, pace, pc_f,
                   push_msg, new_size, pushed, executed, waited, seen_at_lock,
                   exit_seen, heap, app, qsave>>

BusReady == pc_bus = "running" /\ bus_op.n < MaxBusOps

bus_read8 ==
    /\ BusReady
    /\ \E addr \in Addrs :
          BusAccess("read8", addr, Zero32, core_bus_read8(core, host, addr))

bus_write8 ==
    /\ BusReady
    /\ \E addr \in Addrs, val \in Values8 :
          BusAccess("write8", addr, val, core_bus_write8(core, host, addr, val))

bus_read16 ==
    /\ BusReady
    /\ \E addr \in Addrs, masked \in BOOLEAN :
          BusAccess("read16", addr, Zero32, core_bus_read16(core, host, addr, masked))

bus_write16 ==
    /\ BusReady
    /\ \E addr \in Addrs, val \in Values16 :
          BusAccess("write16", addr, val, core_bus_write16(core, host, addr, val))

bus_read32 ==
    /\ BusReady
    /\ \E addr \in Addrs, masked \in BOOLEAN :
          BusAccess("read32", addr, Zero32, core_bus_read32(core, host, addr, masked))

bus_write32 ==
    /\ BusReady
    /\ \E addr \in Addrs, val \in Values32 :
          BusAccess("write32", addr, val, core_bus_write32(core, host, addr, val))

InitBus ==
    /\ InitLoop
    /\ \E big_endian \in BOOLEAN : core = CoreInit(big_endian)
    /\ host \in Hosts
    /\ pc_bus = "running"
    /\ bus_op = NoBusOp

NextBus ==
    \/ bus_read8
    \/ bus_write8
    \/ bus_read16
    \/ bus_write16
    \/ bus_read32
    \/ bus_write32

SpecBus == InitBus /\ [][NextBus]_vars

(***************************************************************************)
(* The same accesses on a core whose memory is as small as the build       *)
(* allows, from no byte at all to MaxSmallSize bytes.  core->memory points *)
(* into the address space of the process: what lies after the array is     *)
(* other data of the process, and an access to it is undefined: it reads   *)
(* or overwrites that data, or it faults.                                  *)
(***************************************************************************)
MaxSmallSize == 4

SmallAddrs == 0..(MaxSmallSize + 1)

\* The bytes that may lie after the array.
JunkBytes == {0, 255}

SmallCore(size, big_endian) ==
    [memory |-> [a \in 0..(size - 1) |-> 17 * (a + 1)],
     memory_size |-> size,
     big_endian |-> big_endian]

\* memory + addr for every addr the accesses of the model may compute
AddressSpace(c, junk) ==
    [c EXCEPT !.memory = [a \in 0..(MaxSmallSize + 5) |->
                             IF a < c.memory_size THEN c.memory[a] ELSE junk]]

\* The address the function dereferences: reads clear its lowest bit first.
Dereferenced(op, addr) ==
    IF op \in {"read16", "read32"} THEN MaskFFFFFFFE(addr) ELSE addr

SmallAccess(op, addr, val, r, fault) ==
    LET width == IF op \in {"read16", "write16"} THEN 2 ELSE 4
        outside == r.outcome = "ok" /\ Dereferenced(op, addr) + width > core.memory_size
        outcome == IF ~outside THEN r.outcome
                   ELSE IF fault THEN "segv" ELSE "outside"
    IN  /\ core' = [core EXCEPT !.memory = [a \in DOMAIN core.memory |-> r.memory[a]]]
        /\ bus_op' = [n |-> bus_op.n + 1, op |-> op, addr |-> addr, val |-> val,
                      outcome |-> outcome, result |-> r.value, before |-> core.memory]
        /\ pc_bus' = IF outcome \in {"ok", "outside"} THEN "running" ELSE outcome
        /\ UNCHANGED <<host, message_queue, gba, pc_e, message, frame_calls, pace, pc_f,
                       push_msg, new_size, pushed, executed, waited, seen_at_lock,
                       exit_seen, heap, app, qsave>>

small_read16 ==
    /\ BusReady
    /\ \E addr \in SmallAddrs, masked \in BOOLEAN, junk \in JunkBytes, fault \in BOOLEAN :
          SmallAccess("read16", addr, Zero32,
                      core_bus_read16(AddressSpace(core, junk), host, addr, masked), fault)

small_write16 ==
    /\ BusReady
    /\ \E addr \in SmallAddrs, val \in Values16, junk \in JunkBytes, fault \in BOOLEAN :
          SmallAccess("write16", addr, val,
                      core_bus_write16(AddressSpace(core, junk), host, addr, val), fault)

small_read32 ==
    /\ BusReady
    /\ \E addr \in SmallAddrs, masked \in BOOLEAN, junk \in JunkBytes, fault \in BOOLEAN :
          SmallAccess("read32", addr, Zero32,
                      core_bus_read32(AddressSpace(core, junk), host, addr, masked), fault)

small_write32 ==
    /\ BusReady
    /\ \E addr \in SmallAddrs, val \in Values32, junk \in JunkBytes, fault \in BOOLEAN :
          SmallAccess("write32", addr, val,
                      core_bus_write32(AddressSpace(core, junk), host, addr, val), fault)

InitSmall ==
    /\ InitLoop
    /\ \E size \in 0..MaxSmallSize, big_endian \in BOOLEAN :
          core = SmallCore(size, big_endian)
    /\ host \in Hosts
    /\ pc_bus = "running"
    /\ bus_op = NoBusOp

NextSmall ==
    \/ small_read16
    \/ small_write16
    \/ small_read32
    \/ small_write32

SpecSmall == InitSmall /\ [][NextSmall]_vars

(***************************************************************************)
(* Helpers of the properties.                                              *)
(***************************************************************************)
ExecutedMsgs == [i \in 1..Len(executed) |-> executed[i].msg]

IsPrefix(s, t) == Len(s) <= Len(t) /\ \A i \in 1..Len(s) : s[i] = t[i]

NoExitPushed == \A i \in 1..Len(pushed) : pushed[i].type /= "MESSAGE_EXIT"

\* The records still to be drained, as the queue's three fields describe them.
PendingMsgs ==
    Pending(message_queue.messages, IF pc_e = "drain" THEN message ELSE 0,
            message_queue.length)

(***************************************************************************)
(* C1: as long as no Exit record has been pushed, the records gba_run has  *)
(* executed are the records pushed so far, in push order, each once: the   *)
(* executed sequence is a prefix of the pushed sequence, within one drain  *)
(* and across successive drains.                                           *)
(***************************************************************************)
C1_FifoOrder ==
    NoExitPushed =>
        /\ IsPrefix(ExecutedMsgs, pushed)
        /\ \A i, j \in 1..Len(executed) :
              executed[i].msg.id = executed[j].msg.id => i = j

\* Three records executed in two drains: two in one drain, one in another.
C1_Witness ==
    /\ NoExitPushed
    /\ Len(executed) = 3
    /\ Cardinality({i \in 1..3 : executed[i].off = 0}) = 2

(***************************************************************************)
(* C2: a push and a drain never overlap, each runs entirely under          *)
(* message_queue.lock, and no record is lost, duplicated or torn: until    *)
(* an Exit is reached, the executed records followed by the records still  *)
(* in the queue are exactly the records whose push completed, and every    *)
(* executed record is a whole record executed once.                        *)
(***************************************************************************)
InPush == pc_f \in {"copy", "commit", "unlock"}

InDrain == pc_e = "drain"

C2_PushDrainExclusive ==
    /\ ~(InPush /\ InDrain)
    /\ InPush => message_queue.lock = "front"
    /\ InDrain => message_queue.lock = "emu"
    /\ \A i \in 1..Len(executed) : executed[i].msg.type /= "MESSAGE_TORN"
    /\ \A i, j \in 1..Len(executed) :
          executed[i].msg.id = executed[j].msg.id => i = j
    /\ (~exit_seen /\ ~InPush) => ExecutedMsgs \o PendingMsgs = pushed

\* The front-end is blocked on the mutex in the middle of a drain that has
\* executed a record and still has one to go.
C2_Witness ==
    /\ pc_f = "lock"
    /\ InDrain
    /\ message > 0
    /\ message_queue.length > 0
    /\ Len(pushed) = 2

(***************************************************************************)
(* C3: every record whose push completed before the emulator took the lock *)
(* at the top of an iteration has been executed when that iteration's      *)
(* drain ends, before its sched_run_for; a pending record sees at most one *)
(* frame; and, under fair scheduling, every pushed record is eventually    *)
(* executed unless the drain reaches an Exit first.                        *)
(***************************************************************************)
C3_DrainedBeforeFrame ==
    /\ pc_e \in {"frame", "pace"} => Len(executed) >= seen_at_lock
    /\ \A i \in 1..Len(waited) : waited[i] <= 1

C3_OneFrameLatency ==
    /\ []C3_DrainedBeforeFrame
    /\ \A i \in 1..MaxPush :
          (Len(pushed) >= i) ~> (exit_seen \/ Len(executed) >= i)

\* A record was pushed during a frame, waited for that frame and was executed.
C3_Witness ==
    \E i \in 1..Len(pushed) :
        /\ waited[i] = 1
        /\ pushed[i].id \in ExecutedIds
        /\ ~exit_seen

(***************************************************************************)
(* C4: once the drain has reached an Exit record, gba_run has returned     *)
(* and does not hold message_queue.lock; from then on no record is         *)
(* executed (in particular none queued after the Exit) and sched_run_for   *)
(* is not called again.                                                    *)
(***************************************************************************)
C4_ExitReturns ==
    /\ [](exit_seen => /\ pc_e = "returned"
                       /\ message_queue.lock /= "emu"
                       /\ frame_calls = 0)
    /\ [][exit_seen => /\ executed' = executed
                       /\ frame_calls' = frame_calls
                       /\ pc_e' = pc_e]_vars

\* gba_run returned on an Exit that had a record before it, and the front-end
\* holds the lock with a record queued after the Exit.
C4_Witness ==
    /\ exit_seen
    /\ Len(executed) >= 1
    /\ message_queue.length >= 2
    /\ message_queue.lock = "front"

(***************************************************************************)
(* C6: in every loop iteration sched_run_for is called once if state is    *)
(* RUN after the drain and not at all otherwise: when the iteration        *)
(* reaches the pacing code, the number of calls is 1 exactly when the last *)
(* Run or Pause record executed so far is a Run, and 0 when it is a Pause  *)
(* (also a Pause that follows a Run in the same drain) or when there is    *)
(* none.                                                                   *)
(***************************************************************************)
StateCmds == {i \in 1..Len(executed) :
                 executed[i].msg.type \in {"MESSAGE_RUN", "MESSAGE_PAUSE"}}

LastStateCmd ==
    IF StateCmds = {} THEN "none"
    ELSE executed[CHOOSE i \in StateCmds : \A j \in StateCmds : j <= i].msg.type

C6_FrameIffRun ==
    /\ frame_calls \in {0, 1}
    /\ pc_e \in {"drain", "frame"} => frame_calls = 0
    /\ pc_e = "pace" =>
          /\ frame_calls = (IF gba.state = "GBA_STATE_RUN" THEN 1 ELSE 0)
          /\ frame_calls = (IF LastStateCmd = "MESSAGE_RUN" THEN 1 ELSE 0)

\* A Run and then a Pause were executed in one drain, and the iteration ran no frame.
C6_Witness ==
    /\ pc_e = "pace"
    /\ frame_calls = 0
    /\ Len(executed) >= 2
    /\ executed[Len(executed) - 1].msg.type = "MESSAGE_RUN"
    /\ executed[Len(executed)].msg.type = "MESSAGE_PAUSE"
    /\ executed[Len(executed)].off > 0

(***************************************************************************)
(* C5: started is true exactly when a Run has been executed since the most *)
(* recent Reset.  A BackupType or Rtc record executed while started is     *)
(* true (paused or not) leaves backup_storage_type, backup_storage_source, *)
(* rtc_auto_detect and rtc_enabled unchanged; executed while started is    *)
(* false it takes effect: a manual BackupType sets the type and the source *)
(* MANUAL, an Rtc sets the two rtc flags as its state says.                *)
(***************************************************************************)
RunSinceReset(i) ==
    \E r \in 1..(i - 1) :
        /\ executed[r].msg.type = "MESSAGE_RUN"
        /\ \A j \in (r + 1)..(i - 1) : executed[j].msg.type /= "MESSAGE_RESET"

ConfigOf(g) == <<g.backup_storage_type, g.backup_storage_source,
                 g.rtc_auto_detect, g.rtc_enabled>>

RtcOf(g) == <<g.rtc_auto_detect, g.rtc_enabled>>

RtcFor(state) ==
    CASE state = "DEVICE_AUTO_DETECT" -> <<TRUE, FALSE>>
      [] state = "DEVICE_ENABLED" -> <<FALSE, TRUE>>
      [] state = "DEVICE_DISABLED" -> <<FALSE, FALSE>>

C5_ConfigOnlyBeforeStart ==
    \A i \in 1..Len(executed) :
        LET e == executed[i] IN
        e.msg.type \in {"MESSAGE_BACKUP_TYPE", "MESSAGE_RTC"} =>
            /\ e.before.started = RunSinceReset(i)
            /\ e.before.started => ConfigOf(e.after) = ConfigOf(e.before)
            /\ (~e.before.started /\ e.msg.type = "MESSAGE_RTC") =>
                  /\ RtcOf(e.after) = RtcFor(e.msg.sel)
                  /\ e.after.backup_storage_type = e.before.backup_storage_type
                  /\ e.after.backup_storage_source = e.before.backup_storage_source
            /\ (~e.before.started /\ e.msg.type = "MESSAGE_BACKUP_TYPE"
                    /\ e.msg.sel /= "BACKUP_AUTO_DETECT") =>
                  /\ e.after.backup_storage_type = e.msg.sel
                  /\ e.after.backup_storage_source = "BACKUP_SOURCE_MANUAL"
                  /\ RtcOf(e.after) = RtcOf(e.before)

\* A BackupType that names another type than the current one was executed
\* while started and paused, and was ignored.
C5_Witness ==
    /\ Len(executed) = 3
    /\ executed[3].msg.type = "MESSAGE_BACKUP_TYPE"
    /\ executed[3].msg.sel = "BACKUP_SRAM"
    /\ executed[3].before.started
    /\ executed[3].before.state = "GBA_STATE_PAUSE"
    /\ executed[3].before.backup_storage_type = "BACKUP_NONE"
    /\ gba.backup_storage_type = "BACKUP_NONE"
    /\ message_queue.length = 0

(***************************************************************************)
(* C7: after a KeyInput(key, pressed) record is executed, the KEYINPUT bit *)
(* of that key is 0 if pressed and 1 if not (active-low), and the bits of  *)
(* the other nine keys are as they were.                                   *)
(***************************************************************************)
KeyinputBitOf ==
    [k \in Keys |->
        CASE k = "KEY_A" -> "a"          [] k = "KEY_B" -> "b"
          [] k = "KEY_SELECT" -> "select" [] k = "KEY_START" -> "start"
          [] k = "KEY_RIGHT" -> "right"   [] k = "KEY_LEFT" -> "left"
          [] k = "KEY_UP" -> "up"         [] k = "KEY_DOWN" -> "down"
          [] k = "KEY_R" -> "r"           [] k = "KEY_L" -> "l"]

C7_KeyInputActiveLow ==
    \A i \in 1..Len(executed) :
        LET e == executed[i] IN
        e.msg.type = "MESSAGE_KEYINPUT" =>
            /\ e.after.keyinput[KeyinputBitOf[e.msg.key]] = (IF e.msg.pressed THEN 0 ELSE 1)
            /\ \A f \in KeyFields \ {KeyinputBitOf[e.msg.key]} :
                  e.after.keyinput[f] = e.before.keyinput[f]
            /\ (i = Len(executed) => gba.keyinput = e.after.keyinput)

\* Select was pressed while every other button was released and Start held.
C7_Witness ==
    /\ Len(executed) = 1
    /\ executed[1].msg.key = "KEY_SELECT"
    /\ executed[1].msg.pressed
    /\ executed[1].before.keyinput =
          [f \in KeyFields |-> IF f = "start" THEN 0 ELSE 1]
    /\ gba.keyinput = [f \in KeyFields |-> IF f \in {"start", "select"} THEN 0 ELSE 1]
    /\ pc_e = "frame"

(***************************************************************************)
(* Helpers of the bus properties.                                          *)
(***************************************************************************)
\* A 32-bit value rotated right by a whole number of bytes.
Ror32(w, bytes) == [i \in 1..4 |-> w[((i - 1 + bytes) % 4) + 1]]

\* The core as it was before the last access.
CoreBefore == [core EXCEPT !.memory = bus_op.before]

AlignDown(addr, width) == addr - (addr % width)

\* Every byte of the aligned unit of `width` bytes around addr is in memory.
UnitInRange(addr, width) == AlignDown(addr, width) + width - 1 < core.memory_size

(***************************************************************************)
(* C8: for every in-range address a that is not word-aligned,              *)
(* core_bus_read32(a) equals core_bus_read32(a & ~3) rotated right by      *)
(* (a & 3) * 8 bits.                                                       *)
(***************************************************************************)
C8_Read32RotatesAlignedWord ==
    (/\ bus_op.op = "read32"
     /\ bus_op.addr % 4 /= 0
     /\ UnitInRange(bus_op.addr, 4)) =>
        /\ bus_op.outcome = "ok"
        /\ bus_op.result =
              Ror32(core_bus_read32(CoreBefore, host, AlignDown(bus_op.addr, 4), TRUE).value,
                    bus_op.addr % 4)

(***************************************************************************)
(* C9: for every in-range odd address a, core_bus_read16(a) returns the    *)
(* halfword stored at a - 1 rotated right by 8 bits within a 32-bit        *)
(* result (its high byte in bits 0-7, its low byte in bits 24-31); for     *)
(* every in-range even address it returns the halfword at a zero-extended. *)
(* The halfword is read in the core's byte order, on either host.          *)
(***************************************************************************)
HalfLow(mem, addr) == IF core.big_endian THEN mem[addr + 1] ELSE mem[addr]

HalfHigh(mem, addr) == IF core.big_endian THEN mem[addr] ELSE mem[addr + 1]

C9_Read16RotatesOdd ==
    (bus_op.op = "read16" /\ UnitInRange(bus_op.addr, 2)) =>
        LET al == AlignDown(bus_op.addr, 2)
            lo == HalfLow(bus_op.before, al)
            hi == HalfHigh(bus_op.before, al)
        IN  /\ bus_op.outcome = "ok"
            /\ bus_op.addr % 2 = 1 => bus_op.result = <<hi, 0, 0, lo>>
            /\ bus_op.addr % 2 = 0 => bus_op.result = <<lo, hi, 0, 0>>

\* 0xBEEF was written at 2 and read back at 3 as 0xEF0000BE, on a big-endian
\* host running a little-endian core.
C9_Witness ==
    /\ bus_op.n = 2
    /\ bus_op.op = "read16"
    /\ bus_op.addr = 3
    /\ bus_op.before[2] = 239
    /\ bus_op.before[3] = 190
    /\ bus_op.result = <<190, 0, 0, 239>>
    /\ host.big_endian
    /\ ~core.big_endian

(***************************************************************************)
(* C10: core_bus_write16 to an odd address and core_bus_write32 to a       *)
(* non-word-aligned address store the value at the address aligned down to *)
(* 2 (resp. 4) bytes, and change no byte outside that aligned unit.        *)
(***************************************************************************)
C10_UnalignedWritesAlignDown ==
    \A width \in {2, 4} :
        (/\ bus_op.op = (IF width = 2 THEN "write16" ELSE "write32")
         /\ bus_op.addr % width /= 0
         /\ UnitInRange(bus_op.addr, width)) =>
            LET al == AlignDown(bus_op.addr, width) IN
            /\ bus_op.outcome = "ok"
            /\ \A a \in DOMAIN core.memory :
                  (a < al \/ a >= al + width) => core.memory[a] = bus_op.before[a]
            /\ bus_op.val =
                  (IF width = 2 THEN core_bus_read16(core, host, al, TRUE).value
                   ELSE core_bus_read32(core, host, al, TRUE).value)

(***************************************************************************)
(* Helpers of C11 and C12.                                                 *)
(***************************************************************************)
WidthOf(op) ==
    CASE op \in {"read8", "write8"} -> 1
      [] op \in {"read16", "write16"} -> 2
      [] op \in {"read32", "write32"} -> 4
      [] OTHER -> 0

\* The last access had a byte outside [0, memory_size).
OutOfRange == bus_op.n > 0 /\ bus_op.addr + WidthOf(bus_op.op) > core.memory_size

(***************************************************************************)
(* C11: an access of any width at an address outside memory does not end   *)
(* the emulation: it completes, and it leaves every byte of memory as it   *)
(* was (a read returns some value, a write is dropped).                    *)
(***************************************************************************)
C11_OutOfRangeNeverTerminates ==
    OutOfRange =>
        /\ bus_op.outcome = "ok"
        /\ pc_bus = "running"
        /\ core.memory = bus_op.before

(***************************************************************************)
(* C12: after core_bus_write16 or core_bus_write32 of v at an in-range     *)
(* aligned address a, core_bus_read16 (resp. core_bus_read32) at a returns *)
(* v, whatever the core's byte order and the host; and core_bus_read8 at   *)
(* a + i returns byte i of v counted from the least significant one when   *)
(* big_endian is false, from the most significant one when it is true.     *)
(***************************************************************************)
ReadBack(width, a) ==
    IF width = 2 THEN {core_bus_read16(core, host, a, masked) : masked \in BOOLEAN}
    ELSE {core_bus_read32(core, host, a, masked) : masked \in BOOLEAN}

C12_WriteReadRoundTrip ==
    \A width \in {2, 4} :
        (/\ bus_op.op = (IF width = 2 THEN "write16" ELSE "write32")
         /\ bus_op.addr % width = 0
         /\ bus_op.addr + width <= core.memory_size) =>
            /\ bus_op.outcome = "ok"
            /\ \A r \in ReadBack(width, bus_op.addr) :
                  r.outcome = "ok" /\ r.value = bus_op.val
            /\ \A i \in 0..(width - 1) :
                  LET b == core_bus_read8(core, host, bus_op.addr + i) IN
                  /\ b.outcome = "ok"
                  /\ b.value[1] = (IF core.big_endian THEN bus_op.val[width - i]
                                   ELSE bus_op.val[i + 1])

\* 0xDEADBEEF was written at 4 by a big-endian core on a little-endian host,
\* after 0xBEEF had been written at 0: memory holds DE AD BE EF from 4.
C12_Witness ==
    /\ bus_op.n = 2
    /\ bus_op.op = "write32"
    /\ bus_op.addr = 4
    /\ bus_op.outcome = "ok"
    /\ core.big_endian
    /\ ~host.big_endian
    /\ core.memory[0] = 190
    /\ core.memory[4] = 222
    /\ core.memory[7] = 239

(***************************************************************************)
(* C13: for every payload buffer, the cleanup callback has been called on  *)
(* it once if a record carrying it with a non-null cleanup has been        *)
(* executed, and not at all otherwise (the record is still queued, was     *)
(* never reached, or has a null cleanup); no record is executed twice; and *)
(* the command never reads the payload after the cleanup.                  *)
(***************************************************************************)
ExecutedWith(d) == {i \in 1..Len(executed) : executed[i].msg.data = d}

C13_CleanupOnceAfterUse ==
    \A d \in DOMAIN heap :
        /\ Cardinality(ExecutedWith(d)) <= 1
        /\ heap[d].frees = Cardinality({i \in ExecutedWith(d) : executed[i].msg.cleanup})
        /\ ~heap[d].stale_read

\* A LoadBios and a Quickload, both with a cleanup, were pushed around an
\* Exit: the first was executed and its payload released once, the drain
\* returned on the Exit, and the payload of the second is untouched.
C13_Witness ==
    /\ Len(pushed) = 3
    /\ pushed[1].type = "MESSAGE_LOAD_BIOS" /\ pushed[1].cleanup
    /\ pushed[2].type = "MESSAGE_EXIT"
    /\ pushed[3].type = "MESSAGE_QUICKLOAD" /\ pushed[3].cleanup
    /\ exit_seen
    /\ Len(executed) = 1
    /\ heap[pushed[1].data].frees = 1
    /\ heap[pushed[3].data].frees = 0
    /\ gba.bios /= gba_init.bios

(***************************************************************************)
(* C14: when a loader of gui_game_reset was given a file that cannot be    *)
(* opened or read or has an invalid size, then once gui_game_reset has     *)
(* returned and the queue is drained, an error has been reported through   *)
(* gui_new_error and the emulator's run/pause state, started flag, BIOS    *)
(* and ROM are what they were when gui_game_reset was called.              *)
(***************************************************************************)
BadFile(f) == ~f.opens \/ ~f.reads

GivenBadFile ==
    \/ app.bios_file /= <<>> /\ (BadFile(app.bios_file[1]) \/ app.bios_file[1].len /= BIOS_SIZE)
    \/ app.rom_file /= <<>> /\ (BadFile(app.rom_file[1].file)
                                \/ app.rom_file[1].file.len < 192
                                \/ app.rom_file[1].file.len > CART_SIZE)
    \/ app.save_file /= <<>> /\ BadFile(app.save_file[1])

C14_FailedLoadKeepsState ==
    (/\ app.pc = "idle"
     /\ PlanDone
     /\ Quiescent
     /\ app.called_on /= <<>>
     /\ GivenBadFile) =>
        /\ app.errors > app.called_on[1].errors
        /\ StateOf(gba) = app.called_on[1].gba

(***************************************************************************)
(* C15: load_rom pushes LoadRom, then BackupType, then Rtc, when the file  *)
(* opens, is read in full and is from 192 bytes to CART_SIZE bytes long,   *)
(* both included; the LoadRom record carries the file's bytes and length.  *)
(* In every other case it reports an error and pushes nothing, and         *)
(* gui_game_reset pushes nothing after it.                                 *)
(***************************************************************************)
RomValid(f) == f.opens /\ f.reads /\ f.len >= 192 /\ f.len <= CART_SIZE

RomRecordTypes == <<"MESSAGE_LOAD_ROM", "MESSAGE_BACKUP_TYPE", "MESSAGE_RTC">>

C15_LoadRomLengthCheck ==
    app.rom_file /= <<>> =>
        LET r == app.rom_file[1] IN
        IF RomValid(r.file)
        THEN /\ app.errors = r.errors
             /\ app.pc = "load_save" =>
                   /\ [k \in 1..Len(app.plan) |-> app.plan[k].type] = RomRecordTypes
                   /\ app.plan[1].data_size = r.file.len
                   /\ app.plan[1].cleanup
                   /\ heap[app.plan[1].data].content = Bytes(r.file.len, "rom")
             /\ app.pc /= "load_save" => Len(pushed) >= r.base + 3
             /\ \A k \in 1..3 :
                   r.base + k <= Len(pushed) => pushed[r.base + k].type = RomRecordTypes[k]
        ELSE /\ app.errors = r.errors + 1
             /\ app.pc = "idle"
             /\ app.plan = <<>>
             /\ Len(pushed) = r.base

\* A ROM of exactly CART_SIZE bytes was accepted: its three records were
\* pushed in order and the Rtc record has been executed.
C15_Witness ==
    /\ app.rom_file /= <<>>
    /\ app.rom_file[1].file.len = CART_SIZE
    /\ Len(pushed) >= app.rom_file[1].base + 3
    /\ \E i \in 1..Len(executed) :
          /\ executed[i].msg.type = "MESSAGE_RTC"
          /\ executed[i].msg.id = app.rom_file[1].base + 3
    /\ gba.rom_size = CART_SIZE

(***************************************************************************)
(* C16: after the LoadBios record of a BIOS file of 16,384 bytes is        *)
(* executed, every one of the 16,384 bytes of gba->memory.bios is the byte *)
(* of the file at the same offset; and load_bios given a file of another   *)
(* length reports an error and pushes no record.                           *)
(***************************************************************************)
C16_BiosCopiedWhole ==
    /\ \A i \in 1..Len(executed) :
          executed[i].msg.type = "MESSAGE_LOAD_BIOS" =>
              /\ RunsLen(executed[i].after.bios) = BIOS_SIZE
              /\ \A k \in 1..Len(executed[i].after.bios) :
                    executed[i].after.bios[k].of = "bios"
    /\ (app.bios_file /= <<>> /\ app.bios_file[1].len /= BIOS_SIZE) =>
          /\ app.pc = "idle"
          /\ app.plan = <<>>
          /\ \A i \in (app.base + 1)..Len(pushed) : pushed[i].type /= "MESSAGE_LOAD_BIOS"

\* The debt a cap of two frame periods would allow, and the iterations it
\* takes to pay it.
DebtCap == 2 * FramePeriodUs

SkipCap == DebtCap \div FramePeriodUs

\* C17: with a non-zero speed, accumulated_time at the end of an iteration
\* never exceeds a fixed bound, however long the thread was delayed, and so
\* no more than a fixed number of consecutive iterations skip the sleep.
\* (A value that wrapped below zero is not counted as debt here.)
C17_PacingDebtCapped ==
    (pc_e = "lock" /\ gba.speed /= 0)
        => /\ pace.accumulated_time <= DebtCap
           /\ pace.skips <= SkipCap

\* The iteration that just ended slept exactly the shortfall, or not at all.
SleptShortfall ==
    IF ULess(pace.measured, pace.time_per_frame)
    THEN pace.request = pace.time_per_frame - pace.measured
    ELSE pace.request = 0 - 1

NoWrap == pace.accumulated_time >= 0

NoPacing == pace.accumulated_time = 0 /\ pace.request = 0 - 1

\* C18: with a non-zero speed an iteration sleeps time_per_frame -
\* accumulated_time when the accumulated time is below time_per_frame and
\* does not sleep otherwise, and accumulated_time -= time_per_frame never
\* wraps below zero whatever time hs_usleep took; with speed 0 the loop
\* never sleeps and accumulated_time stays 0.
C18_SleepsShortfallNoWrap ==
    pc_e = "lock"
        => IF gba.speed /= 0 THEN SleptShortfall /\ NoWrap ELSE NoPacing

\* The lock is held by the emulator only in the drain and by the front-end
\* only inside gba_message_push; its holder is never waiting for anything.
LockHeldOnlyInside ==
    /\ message_queue.lock = "emu" <=> pc_e = "drain"
    /\ message_queue.lock = "front" <=> InPush

\* A push that arrives outside a drain finds the mutex free.
PushNeverWaitsForFrame ==
    (pc_f = "lock" /\ pc_e \in {"frame", "pace", "lock", "returned"})
        => MutexFree(message_queue)

KeyinputWrittenInDrain ==
    gba'.keyinput /= gba.keyinput
        => /\ pc_e = "drain" /\ pc_e' = "drain"
           /\ message_queue.lock = "emu"
           /\ Len(executed') = Len(executed) + 1

\* From the end of the drain to the end of the frame, and in every step of
\* gba_message_push, KEYINPUT is left as it is.
KeyinputStableOutsideDrain ==
    (pc_e \in {"frame", "pace"} \/ pc_f' /= pc_f) => gba'.keyinput = gba.keyinput

\* During a frame the records executed are exactly those pushed before the
\* emulator took the lock at the top of the iteration, and KEYINPUT is what
\* the last of them left: a record pushed later has had no effect.
FrameSeesDrainedKeys ==
    /\ pc_e \in {"frame", "pace"} => ExecutedIds = 1..seen_at_lock
    /\ gba.keyinput = IF executed = <<>> THEN gba_init.keyinput
                      ELSE executed[Len(executed)].after.keyinput

\* C20: KEYINPUT is modified only by the emulator thread during the drain
\* and never while sched_run_for is executing: a KeyInput pushed during a
\* frame is visible to emulated code only from the start of the next frame,
\* and the front-end never writes KEYINPUT itself.
C20_KeyInputAtFrameBoundary ==
    /\ [][KeyinputWrittenInDrain /\ KeyinputStableOutsideDrain]_vars
    /\ []FrameSeesDrainedKeys
    /\ \A i \in 1..MaxPush :
          [](Len(waited) >= i => waited[i] <= 1)

\* A KeyInput record was pushed while a frame was in progress, was pending
\* for that frame, and changed KEYINPUT in the drain that followed; the next
\* frame is about to run with the new value.
C20_Witness ==
    /\ pc_e = "frame"
    /\ FrameDue(gba)
    /\ executed /= <<>>
    /\ LET e == executed[Len(executed)] IN
         /\ e.msg.type = "MESSAGE_KEYINPUT"
         /\ e.before.keyinput /= e.after.keyinput
         /\ waited[e.msg.id] = 1

(***************************************************************************)
(* The records pushed and not yet executed, from the history of the run.   *)
(***************************************************************************)
Unexecuted == SubSeq(pushed, Len(executed) + 1, Len(pushed))

RECURSIVE SumSizes(_)
SumSizes(msgs) ==
    IF msgs = <<>> THEN 0 ELSE Head(msgs).size + SumSizes(Tail(msgs))

QueueCountersExact ==
    (MutexFree(message_queue) /\ ~exit_seen)
        => /\ message_queue.length = Len(Unexecuted)
           /\ message_queue.allocated_size = SumSizes(Unexecuted)
           /\ Len(message_queue.messages) = message_queue.allocated_size

\* The step that ends a drain whose loop ran to the end.
DrainLeavesQueueEmpty ==
    (pc_e = "drain" /\ pc_e' = "frame")
        => /\ message_queue'.length = 0
           /\ message_queue'.allocated_size = 0
           /\ message_queue'.messages = <<>>

\* The copy of a push into a queue that a drain emptied.
PushAfterDrainAtOffsetZero ==
    (pc_f = "copy" /\ pc_f' = "commit" /\ message_queue.messages = <<>>)
        => /\ message_queue.allocated_size = 0
           /\ message_queue'.messages = Cells(push_msg)

\* C21: whenever message_queue.lock is free and no Exit has been executed,
\* length is the number of pending records and allocated_size the sum of
\* their sizes; after every complete drain length = 0, allocated_size = 0
\* and messages = NULL, and the next push places its record at offset 0 of
\* a fresh buffer.
C21_QueueCounters ==
    /\ []QueueCountersExact
    /\ [][DrainLeavesQueueEmpty /\ PushAfterDrainAtOffsetZero]_vars

\* After a drain that executed a record, a push has placed its record at
\* offset 0 of a new buffer and a second record has been queued behind it.
C21_Witness ==
    /\ MutexFree(message_queue)
    /\ ~exit_seen
    /\ Len(executed) = 1
    /\ pc_e \in {"frame", "pace"}
    /\ message_queue.length = 2
    /\ MessageAt(message_queue.messages, 0) = pushed[2]
    /\ MessageAt(message_queue.messages, pushed[2].size) = pushed[3]

\* The drain step on a record of an unknown type: nothing of the emulator
\* changes, the record is skipped and counted out.
UnknownConsumed ==
    (pc_e = "drain" /\ DrainContinues(message_queue)
     /\ MessageAt(message_queue.messages, message).type = "MESSAGE_UNKNOWN"
     /\ pc_f' = pc_f)
        => LET m == MessageAt(message_queue.messages, message) IN
           /\ gba' = gba /\ pace' = pace /\ heap' = heap /\ qsave' = qsave
           /\ message' = message + m.size
           /\ message_queue'.length = message_queue.length - 1
           /\ message_queue'.allocated_size = message_queue.allocated_size - m.size
           /\ message_queue'.messages = message_queue.messages
           /\ pc_e' = "drain"

\* At the end of a drain every record pushed before it began has been
\* executed, in push order, whatever unknown records lie among them.
OrderKeptAcrossUnknown ==
    /\ IsPrefix(ExecutedMsgs, pushed)
    /\ pc_e \in {"frame", "pace"} => Len(executed) = seen_at_lock
    /\ \A i \in 1..Len(executed) :
          executed[i].msg.type = "MESSAGE_UNKNOWN"
              => executed[i].after = executed[i].before

\* C22: a record whose type tag matches no case of the drain's switch is
\* consumed (its size is skipped and length decremented) without changing
\* any emulator state, and the records queued after it are still executed
\* in order.
C22_UnknownTagSkipped ==
    /\ [][UnknownConsumed]_vars
    /\ []OrderKeptAcrossUnknown

\* One drain skipped an unknown record of three units and then executed the
\* KeyInput queued behind it, which released A.
C22_Witness ==
    /\ Len(executed) >= 2
    /\ executed[1].msg = [UnknownMsg(3) EXCEPT !.id = 1]
    /\ executed[2].off = 3
    /\ executed[2].msg.type = "MESSAGE_KEYINPUT"
    /\ executed[2].after.keyinput.a = 1
    /\ executed[2].before.keyinput.a = 0

IsRead(op) == op \in {"read8", "read16", "read32"}

\* C23: for every address a < memory_size, core_bus_write8(a, v) followed
\* by core_bus_read8(a) returns v and every byte at another address is as
\* it was; core_bus_read8, core_bus_read16 and core_bus_read32 never modify
\* memory.
C23_Write8Read8 ==
    /\ (bus_op.op = "write8" /\ bus_op.addr < core.memory_size) =>
          /\ bus_op.outcome = "ok"
          /\ LET r == core_bus_read8(core, host, bus_op.addr) IN
               /\ r.outcome = "ok"
               /\ r.value = bus_op.val
               /\ r.memory = core.memory
          /\ \A b \in (DOMAIN core.memory) \ {bus_op.addr} :
                core.memory[b] = bus_op.before[b]
    /\ IsRead(bus_op.op) => core.memory = bus_op.before

\* 0xA5 was written at the last byte of memory as the second access; the
\* byte before it holds what it held, which is not 0xA5.
C23_Witness ==
    /\ bus_op.n = 2
    /\ bus_op.op = "write8"
    /\ bus_op.addr = core.memory_size - 1
    /\ bus_op.outcome = "ok"
    /\ core.memory[core.memory_size - 1] = 165
    /\ core.memory[core.memory_size - 2] = bus_op.before[core.memory_size - 2]
    /\ core.memory[core.memory_size - 2] /= 165

\* The step that clears the flag clears it for data that is in the file.
ClearOnlyWritten ==
    (pc_f = "clear" /\ pc_f' = "idle" /\ gba.backup_storage_dirty)
        => app.backup_file = <<gba.backup>>

\* Outside gui_game_write_backup, a clear flag means the open file is current.
CleanMeansSaved ==
    (pc_f \notin {"fwrite", "clear"} /\ ~gba.backup_storage_dirty
     /\ app.backup_file /= <<>>)
        => app.backup_file = <<gba.backup>>

\* C24: with the emulator thread setting memory.backup_storage_dirty while
\* the front-end runs gui_game_write_backup, no save is lost: whenever
\* gui_game_write_backup has left dirty false, the backup file holds the
\* contents of the backup storage (dirty is never cleared for data that was
\* not written, also when backup_file is NULL or when the flag is set
\* between the check and the clear).
C24_NoSaveLost ==
    /\ [][ClearOnlyWritten]_vars
    /\ []CleanMeansSaved

\* The records pushed whose execution has not happened: those that are not
\* in the history of executed records, in push order.
RECURSIVE NotExecuted(_)
NotExecuted(msgs) ==
    IF msgs = <<>> THEN <<>>
    ELSE (IF Head(msgs).id \in ExecutedIds THEN <<>> ELSE <<Head(msgs)>>)
         \o NotExecuted(Tail(msgs))

\* C25: when gba_run returns on an Exit that has records before or after
\* it in the queue, the queue is left consistent: length and allocated_size
\* describe exactly the unexecuted records and the buffer starts at the
\* first of them; a later gba_message_push does not overwrite a pending
\* record and a later gba_run does not execute again a record that was
\* already executed.
C25_QueueConsistentAfterExit ==
    /\ (exit_seen /\ MutexFree(message_queue) /\ pc_e \in {"returned", "lock"}) =>
          /\ message_queue.length = Len(NotExecuted(pushed))
          /\ message_queue.allocated_size = SumSizes(NotExecuted(pushed))
          /\ PendingMsgs = NotExecuted(pushed)
    /\ \A i, j \in 1..Len(executed) :
          executed[i].msg.id = executed[j].msg.id => i = j

\* C26: at the end of each drain state == GBA_STATE_RUN implies started:
\* frames are run only on a started emulator, so that BackupType and Rtc
\* never take effect between two frames of a running emulation, also after
\* a Reset executed while running.
C26_RunImpliesStarted ==
    /\ pc_e \in {"frame", "pace"} => (gba.state = "GBA_STATE_RUN" => gba.started)
    /\ \A i \in 1..Len(executed) :
          (executed[i].msg.type = "MESSAGE_BACKUP_TYPE"
           /\ executed[i].before.state = "GBA_STATE_RUN")
              => ConfigOf(executed[i].after) = ConfigOf(executed[i].before)

\* The records of a gui_game_reset whose loaders all succeed, by type.
ResetRecordTypes(with_backup) ==
    <<"MESSAGE_PAUSE", "MESSAGE_RESET", "MESSAGE_LOAD_BIOS", "MESSAGE_LOAD_ROM",
      "MESSAGE_BACKUP_TYPE", "MESSAGE_RTC">>
    \o (IF with_backup THEN <<"MESSAGE_LOAD_BACKUP">> ELSE <<>>)
    \o <<"MESSAGE_RESET", "MESSAGE_RUN">>

\* The save file was opened and read in full.
SaveRead == app.save_file /= <<>> /\ app.save_file[1].opens /\ app.save_file[1].reads

\* The records pushed since gui_game_reset was called, by type.
PushedSinceReset ==
    [k \in 1..(Len(pushed) - app.reset_base[1]) |-> pushed[app.reset_base[1] + k].type]

\* gui_game_reset went through its three loaders.
ResetSucceeded == app.reset_base /= <<>> /\ app.enabled

ExecutedOfReset(type) ==
    {i \in 1..Len(executed) : /\ executed[i].msg.type = type
                              /\ executed[i].msg.id > app.reset_base[1]}

\* C27: on success gui_game_reset pushes, in this order, Pause, Reset,
\* LoadBios, LoadRom, BackupType, Rtc, LoadBackup (only if a save file was
\* read), Reset, Run; whatever the interleaving with the drains, no frame
\* is run between the first Pause and the final Run, BackupType and Rtc
\* are executed with started false (not ignored), and LoadBackup is
\* executed after BackupType.
C27_ResetPushOrder ==
    /\ ResetSucceeded =>
          /\ IsPrefix(PushedSinceReset, ResetRecordTypes(SaveRead))
          /\ (app.pc = "idle" /\ PlanDone)
                => PushedSinceReset = ResetRecordTypes(SaveRead)
    /\ app.reset_base /= <<>> =>
          /\ (/\ pc_e = "pace"
              /\ app.reset_base[1] + 1 \in ExecutedIds
              /\ ExecutedOfReset("MESSAGE_RUN") = {}) => frame_calls = 0
          /\ \A i \in ExecutedOfReset("MESSAGE_BACKUP_TYPE") :
                /\ ~executed[i].before.started
                /\ executed[i].after.backup_storage_type = executed[i].msg.sel
                /\ executed[i].after.backup_storage_source = "BACKUP_SOURCE_MANUAL"
          /\ \A i \in ExecutedOfReset("MESSAGE_RTC") :
                /\ ~executed[i].before.started
                /\ RtcOf(executed[i].after) = RtcFor(executed[i].msg.sel)
          /\ \A i \in ExecutedOfReset("MESSAGE_LOAD_BACKUP") :
                /\ \E j \in ExecutedOfReset("MESSAGE_BACKUP_TYPE") : j < i
                /\ executed[i].after.backup = Bytes(app.save_file[1].len, "save")

\* A game was running when gui_game_reset was called; its nine records,
\* LoadBackup among them, have been executed and the new game's first frame
\* has run.
C27_Witness ==
    /\ ResetSucceeded
    /\ app.reset_base[1] = 1
    /\ pushed[1].type = "MESSAGE_RUN"
    /\ SaveRead
    /\ Len(executed) = 10
    /\ \E i \in ExecutedOfReset("MESSAGE_PAUSE") : executed[i].before.state = "GBA_STATE_RUN"
    /\ pc_e = "pace"
    /\ frame_calls = 1

\* The pressed value of the last KeyInput record pushed for a key; FALSE
\* when none was (every button starts released).
LastPressed(key) ==
    LET is == {i \in 1..Len(pushed) : pushed[i].type = "MESSAGE_KEYINPUT" /\ pushed[i].key = key}
    IN  IF is = {} THEN FALSE
        ELSE pushed[CHOOSE i \in is : \A j \in is : j <= i].pressed

StickHigh(axis) == app.axis_value[axis + 1] >= CDiv(INT16_MAX, 2)

StickLow(axis) == app.axis_value[axis + 1] <= CDiv(INT16_MIN, 2)

\* C28: after an SDL_CONTROLLERAXISMOTION event on axis 0 (resp. axis 1)
\* with value v is handled, joystick_right (joystick_down) equals
\* v >= INT16_MAX/2 and joystick_left (joystick_up) equals v <= INT16_MIN/2,
\* and the last KeyInput pushed for each of the two directions carries that
\* pressed value: the emulator's keys match the position of the stick.
C28_AxisMatchesStick ==
    (app.pc = "idle" /\ PlanDone) =>
        /\ app.joystick_right = StickHigh(0)
        /\ app.joystick_left = StickLow(0)
        /\ app.joystick_down = StickHigh(1)
        /\ app.joystick_up = StickLow(1)
        /\ LastPressed("KEY_RIGHT") = StickHigh(0)
        /\ LastPressed("KEY_LEFT") = StickLow(0)
        /\ LastPressed("KEY_DOWN") = StickHigh(1)
        /\ LastPressed("KEY_UP") = StickLow(1)

\* C29: releasing F1 changes only the speed: if the emulator was paused or
\* stopped (the last state-changing command pushed was Pause, or no game
\* is enabled), after the drain it is still in state PAUSE with started
\* unchanged; the front-end pushes Run only when emulation is enabled and
\* not paused.
C29_F1OnlyChangesSpeed ==
    (app.f1 /= <<>> /\ app.f1[1].stopped) =>
        /\ Len(pushed) > app.f1[1].base
              => pushed[app.f1[1].base + 1].type /= "MESSAGE_RUN"
        /\ (Len(pushed) = app.f1[1].base + 1 /\ Quiescent /\ app.f1[1].quiescent)
              => /\ gba.state = "GBA_STATE_PAUSE"
                 /\ gba.started = app.f1[1].started

\* The last access was one of the four halfword and word functions.
WideAccess == bus_op.n > 0 /\ bus_op.op \in {"read16", "write16", "read32", "write32"}

\* Every byte the last access dereferences lies in [0, memory_size).
EveryByteInRange ==
    Dereferenced(bus_op.op, bus_op.addr) + WidthOf(bus_op.op) <= core.memory_size

\* C30: core_bus_read16, core_bus_write16, core_bus_read32 and
\* core_bus_write32 touch memory only when every byte of the access lies in
\* [0, memory_size), for every address and every memory_size, the sizes 0 to
\* 3 smaller than the access included; otherwise they panic and memory is
\* neither read nor written.
C30_WideAccessInRangeOrPanic ==
    WideAccess =>
        IF EveryByteInRange THEN bus_op.outcome \in {"ok", "trap"}
        ELSE bus_op.outcome = "panic" /\ core.memory = bus_op.before

\* The commands of type `type` executed so far.
Loads(type) == {i \in 1..Len(executed) : executed[i].msg.type = type}

\* `region` holds the first k bytes of `payload` and is zero from there to
\* its end, `cap` bytes in all.
FilledFrom(region, payload, k, cap) ==
    /\ RunsLen(region) = cap
    /\ Take(region, k) = Norm(Take(payload, k))
    /\ Drop(region, k) = Bytes(cap - k, "zero")

LoadRomFills ==
    \A i \in Loads("MESSAGE_LOAD_ROM") :
        LET e == executed[i]
            n == e.msg.data_size
        IN  /\ e.after.rom_size = Min(n, CART_SIZE)
            /\ FilledFrom(e.after.rom, heap[e.msg.data].content,
                          e.after.rom_size, CART_SIZE)

LoadBackupFills ==
    \A i \in Loads("MESSAGE_LOAD_BACKUP") :
        LET e == executed[i]
            cap == backup_storage_sizes(e.before.backup_storage_type)
        IN  FilledFrom(e.after.backup, heap[e.msg.data].content,
                       Min(e.msg.data_size, cap), cap)

NoLoadPastCapacity ==
    /\ RunsLen(gba.bios) = BIOS_SIZE
    /\ RunsLen(gba.rom) = CART_SIZE
    /\ RunsLen(gba.backup) = backup_storage_sizes(gba.backup_storage_type)

\* C31: executing LoadRom with a payload of size n sets rom_size to
\* min(n, CART_SIZE), makes the first rom_size bytes of the ROM the first
\* rom_size bytes of the payload and every other byte of the ROM zero, so
\* that nothing of an image loaded before remains; LoadBackup likewise
\* zero-fills the backup storage and copies min(n, size of the current
\* type) bytes; no load command writes past the capacity of its
\* destination.
C31_LoadsZeroFillAndCopy == LoadRomFills /\ LoadBackupFills /\ NoLoadPastCapacity

\* A ROM image longer than the cartridge space was loaded and cut to
\* CART_SIZE, and a save longer than the storage was loaded into an SRAM
\* and cut to its size.
C31_Witness ==
    /\ \E i \in Loads("MESSAGE_LOAD_ROM") :
          /\ executed[i].msg.data_size > CART_SIZE
          /\ executed[i].after.rom_size = CART_SIZE
          /\ ByteAt(executed[i].after.rom, CART_SIZE - 1) = "rom_body"
    /\ \E i \in Loads("MESSAGE_LOAD_BACKUP") :
          /\ executed[i].before.backup_storage_type = "BACKUP_SRAM"
          /\ executed[i].msg.data_size > backup_storage_sizes("BACKUP_SRAM")
          /\ ByteAt(executed[i].after.backup, 256) = "save_high"
====
